---- MODULE Spec2Model ----
(***************************************************************************)
(* Tetris AI tournament system: the board-feature heuristic and the game   *)
(* simulator of server.js, the tournament engine of server.js, and the     *)
(* genome registry and submission queue of tournament-system.js.           *)
(*                                                                         *)
(* Numbers.  A weight is an integer counting millionths (the six decimals  *)
(* that generateHash keeps), so the weight -0.510066 is -510066.  Boards   *)
(* are sequences of rows, row 1 being the JavaScript row y = 0 (the top).  *)
(***************************************************************************)
EXTENDS Integers, Sequences, FiniteSets, TLC

\* ------------------------------------------------------------------ bounds
\* config.boardWidth and config.boardHeight of the simulated board.
BoardWidth == 2
BoardHeight == 3
\* config.maxPieces, config.pieceTypes and config.gamesPerGenome.
MaxPieces == 4
MaxPieceTypes == 2
GamesPerGenome == 2
\* Weight vectors the page registers, games a genome plays beyond the
\* qualifying number, submitToTournament calls made from the page, and
\* outcomes of the random nickname draw.
MaxGenomes == 1
MaxExtraGames == 0
MaxSubmits == 1
MaxNicknames == 1
\* Generations the page saves, and genome ids the game uses.
MaxGeneration == 2
MaxGameIds == 2
\* Children on one genome's offspring list before the mixer stops.
MaxOffspring == 2
\* Genomes in window.AI_STATE.population.
MaxPopulation == 4
\* Bits of a number's significand (53 in a double), and genomes mixed at once.
MantissaBits == 8
MaxMixed == 3
\* Genomes the server is sent, runTournament calls, and Math.random() seeds.
MaxParticipants == 2
MaxRuns == 1
MaxFurtherRuns == 1
MaxSeeds == 2
\* Submit requests the server answers.
MaxRequests == 3
\* Participants of the tournament whose elite share is computed alone.
MaxElitePool == 21

\* ------------------------------------------------------------- variables
VARIABLES
    evalPc,        \* "input" | "evaluated": position of the evaluateBoard call
    grid,          \* the board handed to evaluateBoard
    weights,       \* the weight vector handed to evaluateBoard
    evalFeatures,  \* what computeBoardFeatures returned
    evalScore,     \* what evaluateBoard returned
    \* simulateSingleGame
    gamePc,        \* "idle" | "loop" | "returned"
    genome,        \* the genomes row being simulated
    config,        \* the tournament config
    board,         \* let board
    score,         \* let score
    lines,         \* let lines
    pieces,        \* let pieces
    pieceType,     \* the piece type the rng drew last
    gameResult,    \* the returned {score, lines, pieces, survivalTime}
    \* the browser: GenomeIdentifier, TournamentSystem and localStorage
    genomeDatabase,   \* GenomeIdentifier.genomeDatabase: id -> genome
    storedDatabase,   \* localStorage item tetris_genome_database
    submissionQueue,  \* TournamentSystem.submissionQueue
    storedQueue,      \* localStorage item tetris_submission_queue
    eliteGenomes,     \* TournamentSystem.eliteGenomes: id -> elite
    storedElites,     \* localStorage item tetris_elite_genomes
    calls,            \* submitToTournament calls waiting for their fetch
    retry,            \* retryQueuedSubmissions calls: position and local queue
    lastError,        \* what the latest submitToTournament call threw at once
    uiSubmits,        \* submitToTournament calls made from the page so far
    undelivered,      \* ids queued locally and not accepted by the server since
    genomeHistory,    \* the page's genomeHistory: game genome id -> registered id
    currentGeneration, \* the page's currentGeneration
    aiPopulation,     \* window.AI_STATE.population as the page saved it last
    lineageOf,        \* the genome id displayLineage was called with, or NoItem
    convergent,       \* what findSimilarGenomes returned to displayLineage
    mixPc,            \* "start" | "mixed": position of the mixStrategies arithmetic
    mixArgs,          \* the weights of the genomes being mixed (binary floats)
    mixResult,        \* mixedWeights
    simPc,            \* "start" | "done": position of the two simulateTetrisGames calls
    simArgs,          \* the genome, the config and the two seeds
    simRuns,          \* what the calls made so far returned
    \* two registerGenome calls on a fresh GenomeIdentifier
    idPc,          \* "start" | "done"
    idArgs,        \* the arguments of the two calls
    idResults,     \* the ids the two calls returned
    \* the server: the sqlite tables, the statements handed to the driver and
    \* the runTournament calls
    genomesTable,       \* table genomes: id -> row
    tournamentsTable,   \* table tournaments: the rows by their AUTOINCREMENT id
    entriesTable,       \* table tournament_entries
    eliteTable,         \* table elite_genomes: genome_id -> row
    strategyStatsTable, \* table strategy_stats: strategy_type -> row
    pendingStatements,  \* statements db.run was called with and that have not run yet
    runningTournament,  \* TournamentEngine.runningTournament
    runs,               \* the runTournament calls: position, selected genomes, seed, result
    simulations,        \* the simulateTetrisGames calls so far: generator key and pieces
    requests,           \* submit requests answered so far
    \* one request to POST /api/tournament/submit
    submitBody,         \* req.body
    submitResponse,     \* the status and the json the handler answers with
    \* one findBestPlacement call
    placePc,            \* "idle" | "called" | "returned"
    placeArgs,          \* board, pieceType and weights of the call
    placeResult         \* the placement returned

evalVars == <<evalPc, grid, weights, evalFeatures, evalScore>>
gameVars == <<gamePc, genome, config, board, score, lines, pieces, pieceType, gameResult>>
clientVars ==
    <<genomeDatabase, storedDatabase, submissionQueue, storedQueue, eliteGenomes,
      storedElites, calls, retry, lastError, uiSubmits, undelivered,
      genomeHistory, currentGeneration>>
idVars == <<idPc, idArgs, idResults>>
serverVars ==
    <<genomesTable, tournamentsTable, entriesTable, eliteTable, strategyStatsTable,
      pendingStatements, runningTournament, runs, simulations, requests>>
submitVars == <<submitBody, submitResponse>>
placeVars == <<placePc, placeArgs, placeResult>>
pageVars == <<aiPopulation>>
similarVars == <<lineageOf, convergent>>
mixVars == <<mixPc, mixArgs, mixResult>>
simVars == <<simPc, simArgs, simRuns>>
vars ==
    <<evalVars, gameVars, clientVars, idVars, serverVars, submitVars, placeVars, pageVars,
      similarVars, mixVars, simVars>>

\* ------------------------------------------------------------- helpers
Abs(n) == IF n < 0 THEN -n ELSE n
Max(a, b) == IF a >= b THEN a ELSE b
Min(a, b) == IF a <= b THEN a ELSE b

RECURSIVE SumSeq(_)
SumSeq(s) == IF s = <<>> THEN 0 ELSE Head(s) + SumSeq(Tail(s))

Rows(b) == 1..Len(b)
Cols(b) == 1..Len(b[1])

\* board[y].every(cell => cell === 1)
RowComplete(row) == \A x \in 1..Len(row) : row[x] = 1

\* Array(height).fill().map(() => Array(width).fill(0))
EmptyBoard(w, h) == [y \in 1..h |-> [x \in 1..w |-> 0]]

AllGrids(w, h) == [1..h -> [1..w -> {0, 1}]]

\* The weight vectors the evaluator is exercised with (millionths).
WeightValues == {-2, 0, 1}
WeightVectors ==
    [aggregateHeight : WeightValues, completeLines : WeightValues,
     holes : WeightValues, bumpiness : WeightValues]

\* ------------------------------------------------ computeBoardFeatures
\* The inner loop over y of one column x: the first block found sets the
\* column height, every empty cell after it is a hole.
RECURSIVE ScanColumn(_, _, _, _)
ScanColumn(b, x, y, acc) ==
    IF y > Len(b) THEN acc
    ELSE IF b[y][x] = 1
         THEN IF ~acc.foundBlock
              THEN ScanColumn(b, x, y + 1,
                       [acc EXCEPT !.columnHeight = Len(b) - (y - 1),
                                   !.foundBlock = TRUE])
              ELSE ScanColumn(b, x, y + 1, acc)
         ELSE IF acc.foundBlock
              THEN ScanColumn(b, x, y + 1, [acc EXCEPT !.holes = @ + 1])
              ELSE ScanColumn(b, x, y + 1, acc)

\* A scan that counts one hole per column at most.
ColumnScanOneHoleAtMost(b, x) ==
    [ScanColumn(b, x, 1, [columnHeight |-> 0, foundBlock |-> FALSE, holes |-> 0])
        EXCEPT !.holes = Min(@, 1)]
ColumnScan(b, x) ==
    ScanColumn(b, x, 1, [columnHeight |-> 0, foundBlock |-> FALSE, holes |-> 0])

\* heights[x] = columnHeight
Heights(b) == [x \in Cols(b) |-> ColumnScan(b, x).columnHeight]

\* for (i = 0; i < heights.length - 1; i++) bumpiness += |heights[i] - heights[i+1]|
RECURSIVE BumpinessFrom(_, _)
BumpinessFrom(heights, i) ==
    IF i > Len(heights) - 1 THEN 0
    ELSE Abs(heights[i] - heights[i + 1]) + BumpinessFrom(heights, i + 1)

\* for (y ...) if (board[y].every(...)) completeLines++
RECURSIVE CompleteLinesFrom(_, _)
CompleteLinesFrom(b, y) ==
    IF y > Len(b) THEN 0
    ELSE (IF RowComplete(b[y]) THEN 1 ELSE 0) + CompleteLinesFrom(b, y + 1)

\* A return statement that forgets to negate the hole count.
FeatureRecordHolesNotNegated(aggregateHeight, holes, bumpiness, completeLines) ==
    [aggregateHeight |-> -aggregateHeight,
     holes |-> holes,
     bumpiness |-> -bumpiness,
     completeLines |-> completeLines]

\* The returned record: the three penalties are returned negated.
FeatureRecord(aggregateHeight, holes, bumpiness, completeLines) ==
    [aggregateHeight |-> -aggregateHeight,
     holes |-> -holes,
     bumpiness |-> -bumpiness,
     completeLines |-> completeLines]

computeBoardFeatures(b) ==
    LET scans == [x \in Cols(b) |-> ColumnScan(b, x)]
        heights == [x \in Cols(b) |-> scans[x].columnHeight]
    IN FeatureRecord(SumSeq(heights),
                     SumSeq([x \in Cols(b) |-> scans[x].holes]),
                     BumpinessFrom(heights, 1),
                     CompleteLinesFrom(b, 1))

\* ---------------------------------------------------- Number arithmetic
\* The Numbers of the server are counted in millionths.  MaxValue stands for
\* Number.MAX_VALUE, the largest finite Number: a result beyond it is
\* Infinity or -Infinity, and NaN is neither above nor below any Number.
MaxValue == 100000000
Infinity == MaxValue + 1
NaN == MaxValue + 2
IsFinite(a) == a # NaN /\ Abs(a) <= MaxValue
Sign(a) == IF a < 0 THEN -1 ELSE 1
\* a * b
Times(a, b) ==
    IF a = NaN \/ b = NaN THEN NaN
    ELSE IF a = 0 \/ b = 0 THEN (IF IsFinite(a) /\ IsFinite(b) THEN 0 ELSE NaN)
    ELSE IF ~IsFinite(a) \/ ~IsFinite(b) \/ Abs(a) > MaxValue \div Abs(b)
         THEN Sign(a) * Sign(b) * Infinity
    ELSE a * b
\* a + b
Plus(a, b) ==
    IF a = NaN \/ b = NaN THEN NaN
    ELSE IF ~IsFinite(a) /\ ~IsFinite(b) THEN (IF a = b THEN a ELSE NaN)
    ELSE IF ~IsFinite(a) THEN a
    ELSE IF ~IsFinite(b) THEN b
    ELSE IF a + b > MaxValue THEN Infinity
    ELSE IF a + b < -MaxValue THEN -Infinity
    ELSE a + b
\* a > b and a >= b
Greater(a, b) == a # NaN /\ b # NaN /\ a > b
GreaterOrEqual(a, b) == a # NaN /\ b # NaN /\ a >= b

\* ------------------------------------------------------- evaluateBoard
LinesTerm(w, features) == Times(w.completeLines, features.completeLines)
HeightTerm(w, features) == Times(w.aggregateHeight, features.aggregateHeight)
HolesTerm(w, features) == Times(w.holes, features.holes)
BumpinessTerm(w, features) == Times(w.bumpiness, features.bumpiness)

WeightedSum(w, features) ==
    Plus(Plus(Plus(LinesTerm(w, features), HeightTerm(w, features)),
              HolesTerm(w, features)),
         BumpinessTerm(w, features))

evaluateBoard(b, w) == WeightedSum(w, computeBoardFeatures(b))

\* ---------------------------------------------------------------------
\* The evaluator as a pure function: any grid, any weight vector.
EvalStart ==
    /\ evalPc = "input"
    /\ \E w \in 1..BoardWidth, h \in 1..BoardHeight : grid \in AllGrids(w, h)
    /\ weights \in WeightVectors
    /\ evalFeatures = FeatureRecord(0, 0, 0, 0)
    /\ evalScore = 0

EvaluateBoardCall ==
    /\ evalPc = "input"
    /\ evalPc' = "evaluated"
    /\ evalFeatures' = computeBoardFeatures(grid)
    /\ evalScore' = evaluateBoard(grid, weights)
    /\ UNCHANGED <<grid, weights>>

\* --------------------------------------------------- simulateSingleGame
\* The config object of runTournament.
Configs ==
    [gamesPerGenome : {GamesPerGenome}, maxPieces : 0..MaxPieces,
     boardWidth : 1..BoardWidth, boardHeight : 1..BoardHeight,
     pieceTypes : 1..MaxPieceTypes]

\* A genomes row, as far as the simulator reads it.
GenomeRow(id, w) ==
    [id |-> id, aggregate_height |-> w.aggregateHeight,
     complete_lines |-> w.completeLines, holes |-> w.holes, bumpiness |-> w.bumpiness]

\* const weights = { aggregateHeight: genome.aggregate_height, ... }
GenomeWeights(g) ==
    [aggregateHeight |-> g.aggregate_height, completeLines |-> g.complete_lines,
     holes |-> g.holes, bumpiness |-> g.bumpiness]

NoPlacement == <<>>

\* y < board.length && x < board[0].length && board[y][x] === 0
canPlace(b, x, y) == y <= Len(b) /\ x <= Len(b[1]) /\ b[y][x] = 0

\* The inner loop over y: the first row of column x that canPlace accepts.
RECURSIVE FirstPlaceable(_, _, _)
FirstPlaceable(b, x, y) ==
    IF y > Len(b) THEN 0
    ELSE IF canPlace(b, x, y) THEN y
    ELSE FirstPlaceable(b, x, y + 1)

\* newBoard[placement.y][placement.x] = 1
placePiece(b, placement) ==
    [b EXCEPT ![placement[2]][placement[1]] = 1]

\* if (score >= bestScore)
BetterOrEqual(candidate, best) == GreaterOrEqual(candidate, best.score)
\* if (score > bestScore)
Better(candidate, best) == Greater(candidate, best.score)

\* The outer loop over x; pieceType is a parameter the search never reads.
RECURSIVE SearchColumns(_, _, _, _, _)
SearchColumns(b, pt, w, x, best) ==
    IF x > Len(b[1]) THEN best
    ELSE LET y == FirstPlaceable(b, x, 1)
             s == evaluateBoard(placePiece(b, <<x, y>>), w)
         IN IF y # 0 /\ Better(s, best)
            THEN SearchColumns(b, pt, w, x + 1,
                     [found |-> TRUE, score |-> s, placement |-> <<x, y>>])
            ELSE SearchColumns(b, pt, w, x + 1, best)

\* A search in which a piece of type pt cannot go into the first pt columns.
findBestPlacementOfPiece(b, pt, w) ==
    SearchColumns(b, pt, w, 1 + pt,
                  [found |-> FALSE, score |-> -Infinity, placement |-> NoPlacement]).placement
findBestPlacement(b, pt, w) ==
    SearchColumns(b, pt, w, 1,
                  [found |-> FALSE, score |-> -Infinity, placement |-> NoPlacement]).placement

\* One call of findBestPlacement on any board.
PlaceStart ==
    /\ placePc = "called"
    /\ placeArgs \in [board : AllGrids(BoardWidth, BoardHeight),
                      pieceType : 0..(MaxPieceTypes - 1),
                      weights : WeightVectors]
    /\ placeResult = NoPlacement
FindBestPlacementCall ==
    /\ placePc = "called"
    /\ placeResult' = findBestPlacement(placeArgs.board, placeArgs.pieceType, placeArgs.weights)
    /\ placePc' = "returned"
    /\ UNCHANGED placeArgs

\* clearLines: the rows that are not complete, under as many empty rows as
\* were removed.
KeptRows(b) == SelectSeq(b, LAMBDA row : ~RowComplete(row))
ClearedCount(b) == Len(b) - Len(KeptRows(b))
ClearedBoard(b) ==
    [y \in 1..ClearedCount(b) |-> [x \in 1..Len(b[1]) |-> 0]] \o KeptRows(b)

\* const lineScores = [0, 100, 300, 500, 800]
lineScores == <<0, 100, 300, 500, 800>>
LineScore(cleared) == lineScores[Min(cleared, 4) + 1]

\* An off-by-one loop test: while (pieces <= config.maxPieces).
LoopConditionInclusive(p, cfg) == p <= cfg.maxPieces

\* while (pieces < config.maxPieces)
LoopCondition(p, cfg) == p < cfg.maxPieces

\* One pass of the loop body on the locals {board, score, lines, pieces}; over
\* is set when the body leaves the loop by break.
GameLocals(b, s, l, p) == [board |-> b, score |-> s, lines |-> l, pieces |-> p, over |-> FALSE]

LoopBody(st, pt, w) ==
    LET placement == findBestPlacement(st.board, pt, w)
    IN IF placement = NoPlacement
       THEN [st EXCEPT !.over = TRUE]
       ELSE LET placed == placePiece(st.board, placement)
                cleared == ClearedCount(placed)
            IN [st EXCEPT !.board = ClearedBoard(placed),
                          !.lines = @ + cleared,
                          !.score = @ + LineScore(cleared),
                          !.pieces = @ + 1]

\* return { score, lines, pieces, survivalTime: pieces * 2 }
GameReturnValue(st) ==
    [score |-> st.score, lines |-> st.lines, pieces |-> st.pieces,
     survivalTime |-> st.pieces * 2]

NoResult == [score |-> 0, lines |-> 0, pieces |-> 0, survivalTime |-> 0]

GameStart ==
    /\ gamePc = "loop"
    /\ genome \in {GenomeRow(<<>>, w) : w \in WeightVectors}
    /\ config \in Configs
    /\ board = EmptyBoard(config.boardWidth, config.boardHeight)
    /\ score = 0
    /\ lines = 0
    /\ pieces = 0
    /\ pieceType = 0
    /\ gameResult = NoResult

\* A game of a genome whose weights the submit handler accepts: any Numbers
\* but NaN, the largest finite ones among them.
AcceptedWeightValues == WeightValues \cup {-MaxValue, MaxValue}
AcceptedGameStart ==
    /\ gamePc = "loop"
    /\ genome \in {GenomeRow(<<>>, w) :
                     w \in [aggregateHeight : AcceptedWeightValues,
                            completeLines : AcceptedWeightValues,
                            holes : AcceptedWeightValues,
                            bumpiness : AcceptedWeightValues]}
    /\ config \in {c \in Configs : c.pieceTypes = MaxPieceTypes}
    /\ board = EmptyBoard(config.boardWidth, config.boardHeight)
    /\ score = 0
    /\ lines = 0
    /\ pieces = 0
    /\ pieceType = 0
    /\ gameResult = NoResult

\* One iteration of the while loop, the rng drawing the piece type; a break
\* falls through to the return statement.
GameLoop ==
    /\ gamePc = "loop"
    /\ LoopCondition(pieces, config)
    /\ \E pt \in 0..(config.pieceTypes - 1) :
        \E st \in {LoopBody(GameLocals(board, score, lines, pieces), pt, GenomeWeights(genome))} :
           /\ pieceType' = pt
           /\ board' = st.board
           /\ score' = st.score
           /\ lines' = st.lines
           /\ pieces' = st.pieces
           /\ gamePc' = IF st.over THEN "returned" ELSE "loop"
           /\ gameResult' = IF st.over THEN GameReturnValue(st) ELSE gameResult
    /\ UNCHANGED <<genome, config>>

\* The loop condition fails: return.
GameReturn ==
    /\ gamePc = "loop"
    /\ ~LoopCondition(pieces, config)
    /\ gamePc' = "returned"
    /\ gameResult' = GameReturnValue(GameLocals(board, score, lines, pieces))
    /\ UNCHANGED <<genome, config, board, score, lines, pieces, pieceType>>

\* ------------------------------------------- GenomeIdentifier: identifiers
\* Strings are sequences of character codes (charCodeAt).
RECURSIVE Digits(_)
Digits(n) == IF n < 10 THEN <<48 + n>> ELSE Digits(n \div 10) \o <<48 + (n % 10)>>

\* The six decimals of a count of millionths, zero padded.
SixDecimals(n) ==
    <<48 + ((n \div 100000) % 10), 48 + ((n \div 10000) % 10), 48 + ((n \div 1000) % 10),
      48 + ((n \div 100) % 10), 48 + ((n \div 10) % 10), 48 + (n % 10)>>

\* Number.prototype.toFixed(6) of the weight k millionths: "-" for a negative
\* number, the integer part, ".", six decimals.
toFixed6(k) ==
    (IF k < 0 THEN <<45>> ELSE <<>>) \o Digits(Abs(k) \div 1000000)
        \o <<46>> \o SixDecimals(Abs(k) % 1000000)

\* `${aggregateHeight}|${completeLines}|${holes}|${bumpiness}`
HashString(w) ==
    toFixed6(w.aggregateHeight) \o <<124>> \o toFixed6(w.completeLines) \o <<124>>
        \o toFixed6(w.holes) \o <<124>> \o toFixed6(w.bumpiness)

\* A 32-bit integer as two 16-bit halves (of its two's complement).
Word(hi, lo) == [hi |-> hi % 65536, lo |-> lo % 65536]
\* hash << 5
ShiftLeft5(h) == Word(32 * h.hi + ((32 * h.lo) \div 65536), 32 * h.lo)
\* a - b and a + c, kept to 32 bits by the hash & hash that follows
WordMinus(a, b) ==
    IF a.lo >= b.lo THEN Word(a.hi - b.hi + 65536, a.lo - b.lo)
    ELSE Word(a.hi - b.hi - 1 + 65536, a.lo - b.lo + 65536)
WordPlus(a, c) == Word(a.hi + ((a.lo + c) \div 65536), a.lo + c)

\* for (i ...) { hash = ((hash << 5) - hash) + char; hash = hash & hash; }
RECURSIVE HashLoop(_, _, _)
\* hash & hash: the value is a 32-bit word before the next round
HashRound(str, i, hash) ==
    CASE hash.hi \in 0..65535 /\ hash.lo \in 0..65535 -> HashLoop(str, i + 1, hash)
HashLoop(str, i, h) ==
    IF i > Len(str) THEN h
    ELSE HashRound(str, i, WordPlus(WordMinus(ShiftLeft5(h), h), str[i]))

WordAbs(h) ==
    IF h.hi < 32768 THEN h
    ELSE IF h.lo = 0 THEN Word(65536 - h.hi, 0)
    ELSE Word(65535 - h.hi, 65536 - h.lo)

HexDigit(d) == IF d < 10 THEN 48 + d ELSE 55 + d
Hex4(n) ==
    <<HexDigit(n \div 4096), HexDigit((n \div 256) % 16),
      HexDigit((n \div 16) % 16), HexDigit(n % 16)>>
\* toString(16).toUpperCase().padStart(8, '0')
HexPadded(h) == Hex4(h.hi) \o Hex4(h.lo)

HashOf(w) == HexPadded(WordAbs(HashLoop(HashString(w), 1, Word(0, 0))))

\* The weight vectors the browser model registers (millionths), and their
\* hashes, computed once.
WeightList ==
    <<[aggregateHeight |-> -510066, completeLines |-> 760666,
       holes |-> -356630, bumpiness |-> -184483],
      [aggregateHeight |-> -2, completeLines |-> 1, holes |-> 0, bumpiness |-> 1000001],
      [aggregateHeight |-> -510066, completeLines |-> 0, holes |-> 0, bumpiness |-> 0]>>
HashTable == [w \in {WeightList[k] : k \in 1..Len(WeightList)} |-> HashOf(w)]

generateHash(w) == IF w \in DOMAIN HashTable THEN HashTable[w] ELSE HashOf(w)

\* `TETRIS-${hash}-${generation}`
createGenomeIdOfWeightsOnly(w, generation) ==
    <<84, 69, 84, 82, 73, 83, 45>> \o generateHash(w)
createGenomeId(w, generation) ==
    <<84, 69, 84, 82, 73, 83, 45>> \o generateHash(w) \o <<45>> \o Digits(generation)

\* ------------------------------------------- GenomeIdentifier: registry
\* Exact fractions for the running averages.
RECURSIVE Gcd(_, _)
Gcd(a, b) == IF b = 0 THEN a ELSE Gcd(b, a % b)
Fraction(num, den) ==
    LET g == Gcd(Abs(num), den) IN [num |-> num \div g, den |-> den \div g]
ZeroFraction == [num |-> 0, den |-> 1]

\* classifyStrategy: the shares of the absolute weights; with all weights 0
\* the shares are NaN and every comparison fails.
classifyStrategy(w) ==
    LET heightFocus == Abs(w.aggregateHeight)
        lineFocus == Abs(w.completeLines)
        holeFocus == Abs(w.holes)
        smoothnessFocus == Abs(w.bumpiness)
        total == heightFocus + lineFocus + holeFocus + smoothnessFocus
    IN IF total = 0 THEN "balanced"
       ELSE IF 10 * lineFocus > 4 * total THEN "aggressive-line-clearer"
       ELSE IF 10 * heightFocus > 4 * total THEN "height-manager"
       ELSE IF 10 * holeFocus > 4 * total THEN "hole-avoider"
       ELSE IF 10 * smoothnessFocus > 3 * total THEN "smooth-builder"
       ELSE "balanced"

\* generateNickname: one of the three prefixes of the strategy and a suffix,
\* both drawn with Math.random.
NicknameDraws == {[option |-> (2 * k) % 3, suffix |-> (999 * k) % 1000] : k \in 1..MaxNicknames}
generateNickname(w, draw) == <<classifyStrategy(w), draw.option, draw.suffix>>

\* The genome object registerGenome builds (birthTimestamp, mutationDelta,
\* maxLines and avgSurvivalTime are left out: nothing reads them).
NewGenome(id, w, generation, parentIds, mutationType, draw) ==
    [id |-> id,
     weights |-> w,
     metadata |-> [generation |-> generation,
                   parentIds |-> parentIds,
                   mutationType |-> mutationType,
                   bestScore |-> 0,
                   totalGamesPlayed |-> 0,
                   tournamentWins |-> 0,
                   offspring |-> <<>>,
                   nickname |-> generateNickname(w, draw)],
     performance |-> [avgScore |-> ZeroFraction,
                      tournamentHistory |-> <<>>,
                      strategy |-> classifyStrategy(w)]]

EmptyMap == [k \in {} |-> 0]
\* Map.prototype.set
MapSet(map, k, v) == [x \in (DOMAIN map) \cup {k} |-> IF x = k THEN v ELSE map[x]]

\* JSON.stringify(Array.from(map.entries())) and new Map(JSON.parse(saved)):
\* the stored item is the list of [key, value] entries.
\* A localStorage item is <<>> while getItem returns null and <<text>> after
\* setItem.
NoItem == <<>>
Item(text) == <<text>>
Serialize(map) == {<<k, map[k]>> : k \in DOMAIN map}
Deserialize(entries) ==
    [k \in {e[1] : e \in entries} |-> (CHOOSE e \in entries : e[1] = k)[2]]
LoadMap(item) == IF item = NoItem THEN EmptyMap ELSE Deserialize(item[1])

\* parentIds.forEach: push the child on every parent that is in the database.
RECURSIVE AddOffspring(_, _, _, _)
AddOffspring(db, parentIds, i, id) ==
    IF i > Len(parentIds) THEN db
    ELSE IF parentIds[i] \in DOMAIN db
         THEN AddOffspring(
                  [db EXCEPT ![parentIds[i]].metadata.offspring = Append(@, id)],
                  parentIds, i + 1, id)
         ELSE AddOffspring(db, parentIds, i + 1, id)

\* registerGenome: the database after the call, the item it stored (saved
\* before the parents' offspring lists are updated) and the new id.
Registered(set, parentIds, id) ==
    [db |-> AddOffspring(set, parentIds, 1, id), stored |-> Item(Serialize(set)), id |-> id]
RegisterAs(db, id, w, generation, parentIds, mutationType, draw) ==
    Registered(MapSet(db, id, NewGenome(id, w, generation, parentIds, mutationType, draw)),
               parentIds, id)
registerGenome(db, w, generation, parentIds, mutationType, draw) ==
    RegisterAs(db, createGenomeId(w, generation), w, generation, parentIds, mutationType, draw)

\* updatePerformance on a genome that is in the database.
UpdatedGenome(g, gameResultScore) ==
    LET n == g.metadata.totalGamesPlayed + 1
        avg == g.performance.avgScore
    IN [g EXCEPT !.metadata.totalGamesPlayed = n,
                 !.metadata.bestScore = Max(@, gameResultScore),
                 !.performance.avgScore =
                     Fraction((n - 1) * avg.num + gameResultScore * avg.den, n * avg.den)]

\* updatePerformance: nothing happens, and nothing is saved, for an unknown id.
Saved(db) == [db |-> db, stored |-> Item(Serialize(db))]
updatePerformance(db, stored, genomeId, gameResultScore) ==
    IF genomeId \notin DOMAIN db THEN [db |-> db, stored |-> stored]
    ELSE Saved([db EXCEPT ![genomeId] = UpdatedGenome(@, gameResultScore)])

\* ------------------------------------------------------ TournamentSystem
QualifyingScore == 100000
QualifyingGames == 5

canSubmitWithScoreAlone(g) ==
    g.metadata.bestScore >= QualifyingScore
canSubmitToTournament(g) ==
    g.metadata.bestScore >= QualifyingScore /\ g.metadata.totalGamesPlayed >= QualifyingGames

\* The submission object (submittedAt is left out).
Submission(g) ==
    [id |-> g.id,
     weights |-> g.weights,
     metadata |-> [generation |-> g.metadata.generation,
                   bestScore |-> g.metadata.bestScore,
                   strategy |-> g.performance.strategy,
                   nickname |-> g.metadata.nickname,
                   avgScore |-> g.performance.avgScore,
                   totalGamesPlayed |-> g.metadata.totalGamesPlayed]]

\* The two throw statements at the head of submitToTournament.
SubmitError(db, genomeId) ==
    IF genomeId \notin DOMAIN db THEN "Genome not found"
    ELSE IF ~canSubmitToTournament(db[genomeId])
         THEN "Genome does not meet tournament requirements"
         ELSE "none"

\* A call that passed the checks and waits for its fetch: who awaits it (0
\* the page, otherwise a retryQueuedSubmissions call), its submission, and
\* whether the genome object it holds is still the one in the database.
Call(caller, submission) == [caller |-> caller, submission |-> submission, attached |-> TRUE]

RemoveAt(seq, i) == SubSeq(seq, 1, i - 1) \o SubSeq(seq, i + 1, Len(seq))

\* registerGenome replaces the object stored under id: calls that hold the
\* old object no longer reach the database through it.
Detach(cs, id) ==
    [i \in 1..Len(cs) |->
        IF cs[i].submission.id = id THEN [cs[i] EXCEPT !.attached = FALSE] ELSE cs[i]]

\* The setInterval callbacks of startAutoSync that may be running at once;
\* of each its position, the part of its local queue it has not been through,
\* and the local queue it took at its start.
RetryTasks == {1, 2}
IdleTask == [pc |-> "idle", queue |-> <<>>, taken |-> <<>>]

\* The weight vectors genomes are registered with.
ClientWeightVectors == {WeightList[k] : k \in 1..Min(MaxGenomes, Len(WeightList))}
GameScores == {50000, 100000}
UnknownId == <<63>>

ClientStart ==
    /\ genomeDatabase = EmptyMap
    /\ storedDatabase = NoItem
    /\ submissionQueue = <<>>
    /\ storedQueue = NoItem
    /\ eliteGenomes = EmptyMap
    /\ storedElites = NoItem
    /\ calls = <<>>
    /\ retry = [t \in RetryTasks |-> IdleTask]
    /\ lastError = "none"
    /\ uiSubmits = 0
    /\ undelivered = {}
    /\ genomeHistory = EmptyMap
    /\ currentGeneration = 0

\* genomeIdentifier.registerGenome(weights, generation) for a founder.
RegisterGenome ==
    /\ \E w \in ClientWeightVectors, draw \in NicknameDraws :
        \E r \in {registerGenome(genomeDatabase, w, 0, <<>>, "null", draw)} :
           /\ genomeDatabase' = r.db
           /\ storedDatabase' = r.stored
           /\ calls' = Detach(calls, r.id)
    /\ UNCHANGED <<submissionQueue, storedQueue, eliteGenomes, storedElites, retry,
                   lastError, uiSubmits, undelivered, genomeHistory, currentGeneration>>

\* genomeIdentifier.updatePerformance(genomeId, gameResult)
UpdatePerformance ==
    /\ \E id \in DOMAIN genomeDatabase, s \in GameScores :
        /\ genomeDatabase[id].metadata.totalGamesPlayed < QualifyingGames + MaxExtraGames
        /\ \E r \in {updatePerformance(genomeDatabase, storedDatabase, id, s)} :
              genomeDatabase' = r.db /\ storedDatabase' = r.stored
    /\ UNCHANGED <<submissionQueue, storedQueue, eliteGenomes, storedElites, calls, retry,
                   lastError, uiSubmits, undelivered, genomeHistory, currentGeneration>>

\* submitToTournament(genomeId) up to its first await: it throws, or it builds
\* the submission and starts the fetch.
BeginSubmit(caller, genomeId) ==
    LET error == SubmitError(genomeDatabase, genomeId)
    IN /\ lastError' = error
       /\ calls' = IF error = "none"
                   THEN Append(calls, Call(caller, Submission(genomeDatabase[genomeId])))
                   ELSE calls

\* The page calls tournamentSystem.submitToTournament(genomeId).
UiSubmit ==
    /\ uiSubmits < MaxSubmits
    /\ uiSubmits' = uiSubmits + 1
    /\ \E genomeId \in (DOMAIN genomeDatabase) \cup {UnknownId} : BeginSubmit(0, genomeId)
    /\ UNCHANGED <<genomeDatabase, storedDatabase, submissionQueue, storedQueue,
                   eliteGenomes, storedElites, retry, undelivered, genomeHistory, currentGeneration>>

\* The awaiting retryQueuedSubmissions call resumes when the call it awaits
\* has returned.
Resume(caller) ==
    [t \in RetryTasks |->
        IF t = caller THEN [retry[t] EXCEPT !.pc = "iterate", !.queue = Tail(@)]
        ELSE retry[t]]

\* The fetch answers ok: the genome object the call holds gets a history
\* entry and the database is saved.
FetchOk ==
    /\ \E i \in 1..Len(calls) :
        LET c == calls[i]
            id == c.submission.id
            db2 == IF c.attached /\ id \in DOMAIN genomeDatabase
                   THEN [genomeDatabase EXCEPT ![id].performance.tournamentHistory =
                            Append(@, [tournamentId |-> "pending", status |-> "pending"])]
                   ELSE genomeDatabase
        IN /\ genomeDatabase' = db2
           /\ storedDatabase' = Item(Serialize(db2))
           /\ undelivered' = undelivered \ {id}
           /\ calls' = RemoveAt(calls, i)
           /\ retry' = Resume(c.caller)
    /\ UNCHANGED <<submissionQueue, storedQueue, eliteGenomes, storedElites, lastError,
                   uiSubmits, genomeHistory, currentGeneration>>

\* The fetch fails (no connection, or an answer that is not ok): the catch
\* block queues the submission locally and saves the queue.
FetchFails ==
    /\ \E i \in 1..Len(calls) :
        LET c == calls[i]
        IN /\ submissionQueue' = Append(submissionQueue, c.submission)
           /\ storedQueue' = Item(Append(submissionQueue, c.submission))
           /\ undelivered' = undelivered \cup {c.submission.id}
           /\ calls' = RemoveAt(calls, i)
           /\ retry' = Resume(c.caller)
    /\ UNCHANGED <<genomeDatabase, storedDatabase, eliteGenomes, storedElites, lastError,
                   uiSubmits, genomeHistory, currentGeneration>>

\* retryQueuedSubmissions is called: it returns at once on an empty queue,
\* otherwise it takes the queue over.
RetryStart ==
    /\ submissionQueue # <<>>
    /\ \E t \in RetryTasks :
        /\ retry[t].pc = "idle"
        /\ \A u \in RetryTasks : u < t => retry[u].pc # "idle"
        /\ retry' = [retry EXCEPT ![t] = [pc |-> "iterate", queue |-> submissionQueue,
                                          taken |-> submissionQueue]]
    /\ submissionQueue' = <<>>
    /\ UNCHANGED <<genomeDatabase, storedDatabase, storedQueue, eliteGenomes, storedElites,
                   calls, lastError, uiSubmits, undelivered, genomeHistory, currentGeneration>>

\* for (let submission of queue): await this.submitToTournament(submission.id)
RetryIterate ==
    /\ \E t \in RetryTasks :
        /\ retry[t].pc = "iterate"
        /\ retry[t].queue # <<>>
        /\ BeginSubmit(t, Head(retry[t].queue).id)
        /\ retry' = [retry EXCEPT ![t].pc =
                        IF SubmitError(genomeDatabase, Head(retry[t].queue).id) = "none"
                        THEN "awaiting" ELSE "caught"]
    /\ UNCHANGED <<genomeDatabase, storedDatabase, submissionQueue, storedQueue,
                   eliteGenomes, storedElites, uiSubmits, undelivered, genomeHistory, currentGeneration>>

RequeuedNowhere(queue, submission) == queue
\* this.submissionQueue.push(submission)
Requeued(queue, submission) == Append(queue, submission)

\* catch (error) { this.submissionQueue.push(submission) }
RetryCatch ==
    /\ \E t \in RetryTasks :
        /\ retry[t].pc = "caught"
        /\ submissionQueue' = Requeued(submissionQueue, Head(retry[t].queue))
        /\ retry' = [retry EXCEPT ![t].pc = "iterate", ![t].queue = Tail(@)]
    /\ UNCHANGED <<genomeDatabase, storedDatabase, storedQueue, eliteGenomes, storedElites,
                   calls, lastError, uiSubmits, undelivered, genomeHistory, currentGeneration>>

\* After the loop: this.saveQueue()
RetryEnd ==
    /\ \E t \in RetryTasks :
        /\ retry[t].pc = "iterate"
        /\ retry[t].queue = <<>>
        /\ retry' = [retry EXCEPT ![t] = IdleTask]
    /\ storedQueue' = Item(submissionQueue)
    /\ UNCHANGED <<genomeDatabase, storedDatabase, submissionQueue, eliteGenomes,
                   storedElites, calls, lastError, uiSubmits, undelivered, genomeHistory, currentGeneration>>

\* The page is loaded again: new GenomeIdentifier() reads the database item,
\* new TournamentSystem() starts with an empty queue and reads the elites
\* item; the calls of the old page are gone.  localStorage stays.
Reload ==
    /\ storedDatabase # NoItem
    /\ genomeDatabase' = LoadMap(storedDatabase)
    /\ submissionQueue' = <<>>
    /\ eliteGenomes' = LoadMap(storedElites)
    /\ calls' = <<>>
    /\ retry' = [t \in RetryTasks |-> IdleTask]
    /\ genomeHistory' = EmptyMap
    /\ currentGeneration' = 0
    /\ UNCHANGED <<storedDatabase, storedQueue, storedElites, lastError, uiSubmits,
                   undelivered>>

\* ------------------------------------------- evolution tracking (page)
\* The genomes of the population the game hands to saveAIWeights, or gets
\* back from its own loadAIWeights: game id, weights, fitness, and the
\* parentIds and mutationType that crossoverWeights and mutateWeights attached.
GameGenome(id, w, fitness, parentIds) ==
    [id |-> id, weights |-> w, fitness |-> fitness, parentIds |-> parentIds,
     mutationType |-> "null"]

\* crossoverWeights: the registered ids of those parents that are tracked.
ParentChoices ==
    LET tracked == {genomeHistory[k] : k \in DOMAIN genomeHistory}
    IN {<<>>} \cup {<<a>> : a \in tracked} \cup {<<a, b>> : a \in tracked, b \in tracked}

Populations ==
    {<<GameGenome(id, w, fitness, parentIds)>> :
        id \in 1..MaxGameIds, w \in ClientWeightVectors,
        fitness \in {0} \cup GameScores, parentIds \in ParentChoices}

\* What the game's own loadAIWeights returns: fitness and parents are not
\* looked at by the tracking.
LoadedPopulations ==
    {<<GameGenome(id, w, 0, <<>>)>> : id \in 1..MaxGameIds, w \in ClientWeightVectors}

\* What one pass over the population has done so far.
Tracking(db, stored, history, cs) ==
    [db |-> db, stored |-> stored, history |-> history, cs |-> cs]

\* The body of saveAIWeights' forEach for one genome.
Tracked(st, gameId, r) ==
    Tracking(r.db, r.stored, MapSet(st.history, gameId, r.id), Detach(st.cs, r.id))
WithPerformance(st, u) == [st EXCEPT !.db = u.db, !.stored = u.stored]
Played(st, g) ==
    IF g.fitness > 0
    THEN WithPerformance(st, updatePerformance(st.db, st.stored, st.history[g.id], g.fitness))
    ELSE st
SaveGenome(st, g, generation, draw) ==
    Played(IF g.id \in DOMAIN st.history THEN st
           ELSE Tracked(st, g.id, registerGenome(st.db, g.weights, generation, g.parentIds,
                                                 g.mutationType, draw)),
           g)

RECURSIVE SaveLoop(_, _, _, _, _)
SaveLoop(st, population, i, generation, draw) ==
    IF i > Len(population) THEN st
    ELSE SaveLoop(SaveGenome(st, population[i], generation, draw), population, i + 1,
                  generation, draw)

\* The body of loadAIWeights' forEach for one genome.
LoadGenome(st, g, generation, draw) ==
    IF g.id \in DOMAIN st.history THEN st
    ELSE Tracked(st, g.id, registerGenome(st.db, g.weights, generation, <<>>, "loaded", draw))

RECURSIVE LoadLoop(_, _, _, _, _)
LoadLoop(st, population, i, generation, draw) ==
    IF i > Len(population) THEN st
    ELSE LoadLoop(LoadGenome(st, population[i], generation, draw), population, i + 1,
                  generation, draw)

\* window.saveAIWeights(state): the tracking of state.population
saveAIWeights(population, draw) ==
    /\ \E st \in {SaveLoop(Tracking(genomeDatabase, storedDatabase, genomeHistory, calls),
                           population, 1, currentGeneration, draw)} :
           /\ genomeDatabase' = st.db
           /\ storedDatabase' = st.stored
           /\ genomeHistory' = st.history
           /\ calls' = st.cs
    /\ currentGeneration' = currentGeneration + 1
    /\ UNCHANGED <<submissionQueue, storedQueue, eliteGenomes, storedElites, retry,
                   lastError, uiSubmits, undelivered>>

\* window.saveAIWeights(state) with a population
SaveAIWeights ==
    /\ currentGeneration < MaxGeneration
    /\ \E population \in Populations, draw \in NicknameDraws : saveAIWeights(population, draw)

\* window.loadAIWeights() when the game's own load returns a population
LoadAIWeights ==
    /\ \E population \in LoadedPopulations, draw \in NicknameDraws :
        \E st \in {LoadLoop(Tracking(genomeDatabase, storedDatabase, genomeHistory, calls),
                            population, 1, currentGeneration, draw)} :
           /\ genomeDatabase' = st.db
           /\ storedDatabase' = st.stored
           /\ genomeHistory' = st.history
           /\ calls' = st.cs
    /\ UNCHANGED <<submissionQueue, storedQueue, eliteGenomes, storedElites, retry,
                   lastError, uiSubmits, undelivered, currentGeneration>>

\* An elite as GET /api/genomes/elite returns it.
Elite(w, generation, bestScore) ==
    [id |-> createGenomeId(w, generation),
     weights |-> w,
     metadata |-> [generation |-> generation, bestScore |-> bestScore,
                   nickname |-> <<classifyStrategy(w), 1, 7>>],
     performance |-> [strategy |-> classifyStrategy(w)]]
ServerElites ==
    {Elite(w, generation, QualifyingScore) :
        w \in ClientWeightVectors, generation \in 0..MaxGeneration}

\* fetchEliteGenomes with an answer from the server: the elites are put in
\* the map and the map is saved.
FetchEliteGenomes ==
    /\ \E elite \in ServerElites :
        /\ elite.id \notin DOMAIN eliteGenomes
        /\ eliteGenomes' = MapSet(eliteGenomes, elite.id, elite)
        /\ storedElites' = Item(Serialize(eliteGenomes'))
    /\ UNCHANGED <<genomeDatabase, storedDatabase, submissionQueue, storedQueue, calls, retry,
                   lastError, uiSubmits, undelivered, genomeHistory, currentGeneration>>

\* tournamentSystem.importEliteGenome(eliteId): the genome is registered and
\* saved, and then the object in the database gets the elite's nickname,
\* bestScore and strategy.
ImportEliteGenome ==
    /\ \E eliteId \in DOMAIN eliteGenomes, draw \in NicknameDraws :
        \E elite \in {eliteGenomes[eliteId]} :
        \E r \in {registerGenome(genomeDatabase, elite.weights, 0, <<>>, "imported", draw)} :
           /\ genomeDatabase' =
                [r.db EXCEPT ![r.id].metadata.nickname = <<"Import", elite.metadata.nickname>>,
                             ![r.id].metadata.bestScore = elite.metadata.bestScore,
                             ![r.id].performance.strategy = elite.performance.strategy]
           /\ storedDatabase' = r.stored
           /\ calls' = Detach(calls, r.id)
    /\ UNCHANGED <<submissionQueue, storedQueue, eliteGenomes, storedElites, retry,
                   lastError, uiSubmits, undelivered, genomeHistory, currentGeneration>>

\* ---------------------------------------- the page's running population
\* The game's ids of its own genomes.
GameId(k) == <<k>>

PageStart ==
    /\ ClientStart
    /\ aiPopulation \in {<<GameGenome(GameId(1), w, 0, <<>>), GameGenome(GameId(2), v, 0, <<>>)>> :
                             w \in ClientWeightVectors, v \in ClientWeightVectors}

\* What the game has made of AI_STATE.population when it saves: nothing, a
\* game completed by one genome, or one genome replaced by a child.
NextPopulations ==
    {aiPopulation}
    \cup {[aiPopulation EXCEPT ![i].fitness = f] : i \in DOMAIN aiPopulation, f \in GameScores}
    \cup {[aiPopulation EXCEPT ![i] = GameGenome(GameId(k), w, 0, parentIds)] :
             i \in DOMAIN aiPopulation, k \in 1..MaxGameIds, w \in ClientWeightVectors,
             parentIds \in ParentChoices}

\* The game calls window.saveAIWeights(window.AI_STATE).
GameSaves ==
    /\ currentGeneration < MaxGeneration
    /\ \E population \in NextPopulations, draw \in NicknameDraws :
        /\ aiPopulation' = population
        /\ saveAIWeights(population, draw)

\* tournamentSystem.importEliteGenome(eliteId) as a function of the database.
importEliteGenome(db, elite, draw) ==
    LET r == registerGenome(db, elite.weights, 0, <<>>, "imported", draw)
    IN [db |-> [r.db EXCEPT ![r.id].metadata.nickname = <<"Import", elite.metadata.nickname>>,
                            ![r.id].metadata.bestScore = elite.metadata.bestScore,
                            ![r.id].performance.strategy = elite.performance.strategy],
        stored |-> r.stored,
        id |-> r.id]

\* The page's importEliteGenome() with an answer from the server: the first
\* elite of the answer is imported, pushed on AI_STATE.population, and the
\* population is saved.
PageImportElite ==
    /\ currentGeneration < MaxGeneration
    /\ Len(aiPopulation) < MaxPopulation
    /\ \E elite \in ServerElites, draw \in NicknameDraws :
        \E imported \in {importEliteGenome(genomeDatabase, elite, draw)} :
        \E population \in {Append(aiPopulation,
                                  GameGenome(imported.id, imported.db[imported.id].weights,
                                             0, <<>>))} :
        \E st \in {SaveLoop(Tracking(imported.db, imported.stored, genomeHistory,
                                     Detach(calls, imported.id)),
                            population, 1, currentGeneration, draw)} :
           /\ eliteGenomes' = MapSet(eliteGenomes, elite.id, elite)
           /\ storedElites' = Item(Serialize(eliteGenomes'))
           /\ aiPopulation' = population
           /\ genomeDatabase' = st.db
           /\ storedDatabase' = st.stored
           /\ genomeHistory' = st.history
           /\ calls' = st.cs
    /\ currentGeneration' = currentGeneration + 1
    /\ UNCHANGED <<submissionQueue, storedQueue, retry, lastError, uiSubmits, undelivered>>

\* ------------------------------------------------ convergent evolution
\* Weight vectors a mutation apart: the first vector, and the vectors
\* mutateWeights makes of it by moving holes or bumpiness by 0.05.
MutationStep == 50000
NearWeightVectors ==
    {WeightList[1],
     [WeightList[1] EXCEPT !.holes = @ + MutationStep],
     [WeightList[1] EXCEPT !.bumpiness = @ - MutationStep]}
MutantPopulations ==
    {<<GameGenome(id, w, 0, parentIds)>> :
        id \in 1..MaxGameIds, w \in NearWeightVectors, parentIds \in ParentChoices}

\* window.saveAIWeights(state) with a population of mutants
SaveMutants ==
    /\ currentGeneration < MaxGeneration
    /\ \E population \in MutantPopulations, draw \in NicknameDraws :
        saveAIWeights(population, draw)

\* findSimilarGenomes: totalDiff of two weight vectors (millionths).
TotalDiff(w, v) ==
    Abs(w.aggregateHeight - v.aggregateHeight) + Abs(w.completeLines - v.completeLines)
        + Abs(w.holes - v.holes) + Abs(w.bumpiness - v.bumpiness)

\* similar.sort((a, b) => a.difference - b.difference)
RECURSIVE SortByDifference(_)
SortByDifference(similar) ==
    IF similar = {} THEN <<>>
    ELSE LET first == CHOOSE a \in similar : \A b \in similar : a.difference <= b.difference
         IN <<first>> \o SortByDifference(similar \ {first})

\* findSimilarGenomes(weights, threshold): the genomes of the database whose
\* totalDiff is below the threshold and not 0, nearest first.
findSimilarGenomes(db, w, threshold) ==
    SortByDifference({[genome |-> id, difference |-> TotalDiff(w, db[id].weights)] :
                         id \in {x \in DOMAIN db :
                                    /\ TotalDiff(w, db[x].weights) < threshold
                                    /\ TotalDiff(w, db[x].weights) > 0}})

\* displayLineage(genomeId) for a genome that is in the database.
DisplayThreshold == 200000
DisplayLineage ==
    /\ \E genomeId \in DOMAIN genomeDatabase :
        /\ lineageOf' = Item(genomeId)
        /\ convergent' = findSimilarGenomes(genomeDatabase, genomeDatabase[genomeId].weights,
                                            DisplayThreshold)
    /\ UNCHANGED clientVars

\* The Strategy Mixer shows a checkbox for each of the first elites of the
\* list; mixSelectedStrategies takes the checked ones, two at least.
MixerChoices == 5
MixSelections ==
    {s \in UNION {[1..n -> DOMAIN eliteGenomes] :
                     n \in 2..Min(MixerChoices, Cardinality(DOMAIN eliteGenomes))} :
        \A i \in DOMAIN s, j \in DOMAIN s : i # j => s[i] # s[j]}

\* mixStrategies with the default ratios: every weight is the sum of the
\* genomes' weights times 1 / n (here to the nearest millionth).
RECURSIVE WeightSum(_, _, _)
WeightSum(genomes, key, i) ==
    IF i > Len(genomes) THEN 0 ELSE genomes[i].weights[key] + WeightSum(genomes, key, i + 1)
RoundedQuotient(a, n) == (2 * a + n) \div (2 * n)
MixedWeights(genomes) ==
    [aggregateHeight |-> RoundedQuotient(WeightSum(genomes, "aggregateHeight", 1), Len(genomes)),
     completeLines |-> RoundedQuotient(WeightSum(genomes, "completeLines", 1), Len(genomes)),
     holes |-> RoundedQuotient(WeightSum(genomes, "holes", 1), Len(genomes)),
     bumpiness |-> RoundedQuotient(WeightSum(genomes, "bumpiness", 1), Len(genomes))]

\* mixSelectedStrategies -> tournamentSystem.mixStrategies(selectedIds): the
\* mix is registered at generation 0 with the selected ids as its parents,
\* and then named.
MixStrategies ==
    /\ \A id \in DOMAIN genomeDatabase : Len(genomeDatabase[id].metadata.offspring) < MaxOffspring
    /\ \E selectedIds \in MixSelections, draw \in NicknameDraws :
        \E genomes \in {[i \in DOMAIN selectedIds |-> eliteGenomes[selectedIds[i]]]} :
        \E r \in {registerGenome(genomeDatabase, MixedWeights(genomes), 0, selectedIds,
                                 "strategy_mix", draw)} :
           /\ genomeDatabase' =
                [r.db EXCEPT ![r.id].metadata.nickname = <<"MixMaster", draw.suffix>>]
           /\ storedDatabase' = r.stored
           /\ calls' = Detach(calls, r.id)
    /\ UNCHANGED <<submissionQueue, storedQueue, eliteGenomes, storedElites, retry,
                   lastError, uiSubmits, undelivered, genomeHistory, currentGeneration>>

\* --------------------------------- mixStrategies: the arithmetic of Numbers
\* A Number is significand * 2^exponent with a significand of MantissaBits
\* bits; every operation rounds its exact result to the nearest Number, ties
\* to the even significand.
RECURSIVE Pow2(_)
Pow2(k) == IF k = 0 THEN 1 ELSE 2 * Pow2(k - 1)
RECURSIVE BitLength(_)
BitLength(a) == IF a = 0 THEN 0 ELSE 1 + BitLength(a \div 2)

RECURSIVE Number(_, _)
Number(m, e) ==
    IF m = 0 THEN [m |-> 0, e |-> 0]
    ELSE IF m % 2 = 0 THEN Number(m \div 2, e + 1)
    ELSE [m |-> m, e |-> e]

RoundedMagnitude(a, shift) ==
    LET q == a \div Pow2(shift)
        r == a % Pow2(shift)
        half == Pow2(shift - 1)
    IN IF r > half \/ (r = half /\ q % 2 = 1) THEN q + 1 ELSE q
RoundToNumber(m, e) ==
    LET a == Abs(m)
        shift == BitLength(a) - MantissaBits
    IN IF shift <= 0 THEN Number(m, e)
       ELSE Number((IF m < 0 THEN -1 ELSE 1) * RoundedMagnitude(a, shift), e + shift)

\* a * b and a + b
NumberTimes(a, b) == RoundToNumber(a.m * b.m, a.e + b.e)
NumberPlus(a, b) ==
    LET e == Min(a.e, b.e)
    IN RoundToNumber(a.m * Pow2(a.e - e) + b.m * Pow2(b.e - e), e)
\* 1 / n: the quotient to twice the bits, its last bit set when the division
\* left a remainder, then rounded.
OneOver(n) ==
    LET k == 2 * MantissaBits + 2
    IN RoundToNumber(2 * (Pow2(k) \div n) + (IF Pow2(k) % n = 0 THEN 0 ELSE 1), -(k + 1))
NumberLessOrEqual(a, b) ==
    LET e == Min(a.e, b.e)
    IN a.m * Pow2(a.e - e) <= b.m * Pow2(b.e - e)

RECURSIVE MixLoopWithoutRatios(_, _, _, _, _)
MixLoopWithoutRatios(mixed, genomes, mixRatios, key, i) ==
    IF i > Len(genomes) THEN mixed
    ELSE MixLoopWithoutRatios(NumberPlus(mixed, genomes[i][key]), genomes, mixRatios, key, i + 1)
\* genomes.forEach((genome, i) => mixedWeights[key] += genome.weights[key] * mixRatios[i])
RECURSIVE MixLoop(_, _, _, _, _)
MixLoop(mixed, genomes, mixRatios, key, i) ==
    IF i > Len(genomes) THEN mixed
    ELSE MixLoop(NumberPlus(mixed, NumberTimes(genomes[i][key], mixRatios[i])),
                 genomes, mixRatios, key, i + 1)
\* for (let key in mixedWeights)
MixedKeys == {"aggregateHeight", "completeLines", "holes", "bumpiness"}
\* mixStrategies without mixRatios: new Array(n).fill(1 / n)
mixedWeights(genomes) ==
    LET mixRatios == [i \in DOMAIN genomes |-> OneOver(Len(genomes))]
    IN [key \in MixedKeys |-> MixLoop(Number(0, 0), genomes, mixRatios, key, 1)]

\* Weight vectors of the mixed genomes: small significands, and the full
\* width a weight like 0.760666 has.
MixableWeights ==
    {[aggregateHeight |-> Number(-131, -8), completeLines |-> Number(195, -8),
      holes |-> Number(-91, -8), bumpiness |-> Number(-47, -8)],
     [aggregateHeight |-> Number(-1, -1), completeLines |-> Number(3, -2),
      holes |-> Number(-1, -2), bumpiness |-> Number(-1, -3)],
     [aggregateHeight |-> Number(-1, 0), completeLines |-> Number(1, 0),
      holes |-> Number(-1, -1), bumpiness |-> Number(0, 0)],
     [aggregateHeight |-> Number(-133, -8), completeLines |-> Number(193, -8),
      holes |-> Number(-181, -9), bumpiness |-> Number(-187, -10)]}

MixStart ==
    /\ mixPc = "start"
    /\ mixArgs \in UNION {[1..n -> MixableWeights] : n \in 2..MaxMixed}
    /\ mixResult = <<>>

MixWeights ==
    /\ mixPc = "start"
    /\ mixResult' = mixedWeights(mixArgs)
    /\ mixPc' = "mixed"
    /\ UNCHANGED mixArgs

\* --------------------------------------- identifiers of two registrations
\* The arguments of a registerGenome call: weights, generation, parentIds.
RegisterArgs ==
    [weights : {WeightList[k] : k \in 1..Len(WeightList)},
     generation : 0..MaxGeneration,
     parentIds : {<<>>, <<UnknownId>>}]

IdStart ==
    /\ idPc = "start"
    /\ idArgs \in RegisterArgs \X RegisterArgs
    /\ idResults = <<>>

\* Both calls are made, one after the other, on an empty database.
RegisterTwice ==
    /\ idPc = "start"
    /\ \E draw \in NicknameDraws :
        \E first \in {registerGenome(EmptyMap, idArgs[1].weights, idArgs[1].generation,
                                      idArgs[1].parentIds, "null", draw)} :
        \E second \in {registerGenome(first.db, idArgs[2].weights, idArgs[2].generation,
                                       idArgs[2].parentIds, "null", draw)} :
            idResults' = <<first.id, second.id>>
    /\ idPc' = "done"
    /\ UNCHANGED idArgs

\* --------------------------------------------------- tournament: games
\* The config object of runTournament, with the bounds of the model for its
\* numbers.
TournamentConfig ==
    [gamesPerGenome |-> GamesPerGenome, maxPieces |-> MaxPieces,
     boardWidth |-> BoardWidth, boardHeight |-> BoardHeight, pieceTypes |-> MaxPieceTypes]

\* seed + genome.id: a number plus a string is the concatenation of the
\* number's decimal digits and the string.
RngKey(seed, id) == Digits(seed) \o id

\* seedrandom(key) is a library generator: a stream of numbers in [0, 1) that
\* the key determines.  This stream (in thousandths) stands for it.
RngThousandths(key, n) == (SumSeq(key) * (n + 1) * 7919 + n * 104729) % 1000
\* Math.floor(rng() * config.pieceTypes) at the n-th call of rng
PieceType(key, n, cfg) == (RngThousandths(key, n) * cfg.pieceTypes) \div 1000

\* simulateSingleGame from the n-th call of rng on: the returned object and
\* the number of rng calls made so far.
RECURSIVE PlayGame(_, _, _, _, _)
AfterPass(next, w, cfg, key, n) ==
    IF next.over THEN [result |-> GameReturnValue(next), calls |-> n]
    ELSE PlayGame(next, w, cfg, key, n)
PlayGame(st, w, cfg, key, n) ==
    IF ~LoopCondition(st.pieces, cfg) THEN [result |-> GameReturnValue(st), calls |-> n]
    ELSE AfterPass(LoopBody(st, PieceType(key, n, cfg), w), w, cfg, key, n + 1)
simulateSingleGame(g, cfg, key, n) ==
    PlayGame(GameLocals(EmptyBoard(cfg.boardWidth, cfg.boardHeight), 0, 0, 0),
             GenomeWeights(g), cfg, key, n)

\* The for loop of simulateTetrisGames: games, totalScore, maxScore,
\* totalLines, and the rng calls made.
RECURSIVE GamesLoop(_, _, _, _, _)
AfterGame(acc, played, g, cfg, key) ==
    GamesLoop([games |-> Append(acc.games, played.result),
               totalScore |-> acc.totalScore + played.result.score,
               maxScore |-> Max(acc.maxScore, played.result.score),
               totalLines |-> acc.totalLines + played.result.lines,
               calls |-> played.calls],
              Len(acc.games) + 1, g, cfg, key)
GamesLoop(acc, game, g, cfg, key) ==
    IF game >= cfg.gamesPerGenome THEN acc
    ELSE AfterGame(acc, simulateSingleGame(g, cfg, key, acc.calls), g, cfg, key)

\* simulateTetrisGames: what it returns, with the key its generator was
\* seeded with and the piece types the generator produced.
SimulationResult(acc, cfg, key) ==
    [avgScore |-> Fraction(acc.totalScore, cfg.gamesPerGenome),
     maxScore |-> acc.maxScore,
     totalLines |-> acc.totalLines,
     games |-> acc.games,
     rngKey |-> key,
     pieceTypes |-> [k \in 1..acc.calls |-> PieceType(key, k - 1, cfg)]]
simulateTetrisGames(g, cfg, seed) ==
    SimulationResult(
        GamesLoop([games |-> <<>>, totalScore |-> 0, maxScore |-> 0, totalLines |-> 0,
                   calls |-> 0], 0, g, cfg, RngKey(seed, g.id)),
        cfg, RngKey(seed, g.id))

\* ------------------------------------------------ tournament: database
\* A nullable column, and a value that is null or a number: <<>> is NULL and
\* <<v>> is the value v.
NULL == <<>>
NotNull(v) == <<v>>

FractionLess(a, b) == a.num * b.den < b.num * a.den
FractionMax(a, b) == IF FractionLess(a, b) THEN b ELSE a
FractionAdd(a, b) == Fraction(a.num * b.den + b.num * a.den, a.den * b.den)
FractionDiv(a, b) == Fraction(a.num * b.den, a.den * b.num)
One == Fraction(1, 1)

\* INSERT OR REPLACE INTO genomes: the row the submit endpoint stores.  The
\* statement names no tournament_wins, so the column takes its DEFAULT 0.
StoredGenome(body) ==
    [id |-> body.id,
     aggregate_height |-> body.weights.fields.aggregateHeight.value,
     complete_lines |-> body.weights.fields.completeLines.value,
     holes |-> body.weights.fields.holes.value,
     bumpiness |-> body.weights.fields.bumpiness.value,
     best_score |-> body.metadata.bestScore,
     strategy_type |-> body.metadata.strategy,
     tournament_wins |-> 0]

\* genome_id of the entries of completed tournaments
Participated(entries, tours) ==
    {e.genome_id : e \in {x \in entries : tours[x.tournament_id].status = "completed"}}

\* ORDER BY g.best_score DESC: every order of the rows that is descending in
\* best_score; SQL leaves the order of rows with equal best_score open.
RECURSIVE OrderedByBestScore(_, _)
OrderedByBestScore(ids, table) ==
    IF ids = {} THEN {<<>>}
    ELSE UNION {{<<table[first]>> \o rest : rest \in OrderedByBestScore(ids \ {first}, table)} :
                first \in {x \in ids : \A y \in ids : table[x].best_score >= table[y].best_score}}

\* LIMIT 50
SelectLimit == 50
\* SELECT DISTINCT g.* FROM genomes g WHERE g.id NOT IN (...) ORDER BY ... LIMIT 50
SelectPending(table, entries, tours) ==
    {SubSeq(rows, 1, Min(SelectLimit, Len(rows))) :
        rows \in OrderedByBestScore((DOMAIN table) \ Participated(entries, tours), table)}

\* A statement handed to db.run, with the parameters bound to it.  tournament
\* is the runTournament callback that issued it.
Statement(kind, t) ==
    [kind |-> kind, tournament |-> t, genome_id |-> <<>>, strategy |-> "", rank |-> 0,
     wins |-> 0, avg |-> ZeroFraction, dominance |-> ZeroFraction, max_score |-> 0,
     total_lines |-> 0, games |-> 0]

InsertEntry(t, r, cfg) ==
    [Statement("INSERT INTO tournament_entries", t) EXCEPT
        !.genome_id = r.genome.id, !.avg = r.results.avgScore,
        !.max_score = r.results.maxScore, !.total_lines = r.results.totalLines,
        !.games = cfg.gamesPerGenome]
UpdateRank(t, r, index) ==
    [Statement("UPDATE tournament_entries SET rank", t) EXCEPT
        !.genome_id = r.genome.id, !.rank = index + 1]
CompleteTournament(t, winner) ==
    [Statement("UPDATE tournaments SET status = 'completed'", t) EXCEPT !.genome_id = winner.id]
AddTournamentWin(t, winner) ==
    [Statement("UPDATE genomes SET tournament_wins", t) EXCEPT !.genome_id = winner.id]
UpsertElite(t, results, i, eliteCount) ==
    [Statement("INSERT OR REPLACE INTO elite_genomes", t) EXCEPT
        !.genome_id = results[i + 1].genome.id,
        !.wins = IF i = 0 THEN 1 ELSE 0,
        !.avg = results[i + 1].results.avgScore,
        !.dominance = FractionDiv(results[i + 1].results.avgScore,
                                  FractionMax(One, results[eliteCount].results.avgScore))]

\* results.sort((a, b) => b.results.avgScore - a.results.avgScore): the sign
\* of the comparator, and the stable sort of the engine, which leaves
\* participants with equal averages in their order.
Comparator(a, b) ==
    b.results.avgScore.num * a.results.avgScore.den
        - a.results.avgScore.num * b.results.avgScore.den
InsertAt(s, k, r) == SubSeq(s, 1, k) \o <<r>> \o SubSeq(s, k + 1, Len(s))
KeptBefore(sorted, r) == Cardinality({i \in DOMAIN sorted : Comparator(sorted[i], r) <= 0})
RECURSIVE SortFrom(_, _, _)
SortFrom(results, i, sorted) ==
    IF i > Len(results) THEN sorted
    ELSE SortFrom(results, i + 1, InsertAt(sorted, KeptBefore(sorted, results[i]), results[i]))
SortByAvgScore(results) == SortFrom(results, 1, <<>>)

\* results.length * 0.1: the double 0.1 lies a little above one tenth; the
\* factor here lies above it by more than the double does.
Tenth == [num |-> 1000001, den |-> 10000000]
FloorOfTenth(n) == (n * Tenth.num) \div Tenth.den
\* Math.floor(results.length * 0.1), without the Math.max(1, ...)
EliteCountWithoutFloorOfOne(n) == FloorOfTenth(n)
\* const eliteCount = Math.max(1, Math.floor(results.length * 0.1))
EliteCount(n) == Max(1, FloorOfTenth(n))

\* updateStrategyStats: one INSERT OR REPLACE INTO strategy_stats per
\* strategy_type of the participants.
RECURSIVE TotalScore(_, _)
TotalScore(results, members) ==
    IF members = {} THEN ZeroFraction
    ELSE FractionAdd(results[CHOOSE i \in members : TRUE].results.avgScore,
                     TotalScore(results, members \ {CHOOSE i \in members : TRUE}))
RECURSIVE MaxOfScores(_, _)
MaxOfScores(results, members) ==
    IF members = {} THEN 0
    ELSE Max(results[CHOOSE i \in members : TRUE].results.maxScore,
             MaxOfScores(results, members \ {CHOOSE i \in members : TRUE}))
StrategyGroup(results, strategy) ==
    {i \in DOMAIN results : results[i].genome.strategy_type = strategy}
UpsertStrategy(t, results, strategy, members) ==
    [Statement("INSERT OR REPLACE INTO strategy_stats", t) EXCEPT
        !.strategy = strategy,
        !.games = Cardinality(members),
        !.avg = FractionDiv(TotalScore(results, members), Fraction(Cardinality(members), 1)),
        !.max_score = MaxOfScores(results, members)]
updateStrategyStats(t, results) ==
    {UpsertStrategy(t, results, strategy, StrategyGroup(results, strategy)) :
        strategy \in {results[i].genome.strategy_type : i \in DOMAIN results}}

\* genomes.forEach(genome => results.push({genome, results: simulateTetrisGames(...)}))
SimulateAll(selected, cfg, seed) ==
    [k \in DOMAIN selected |->
        [genome |-> selected[k], results |-> simulateTetrisGames(selected[k], cfg, seed)]]

\* The statements the callback of the INSERT INTO tournaments hands to db.run,
\* from the sorted results.
CallbackStatements(t, results, cfg) ==
    {InsertEntry(t, results[k], cfg) : k \in DOMAIN results}
    \cup {UpdateRank(t, results[k], k - 1) : k \in DOMAIN results}
    \cup {CompleteTournament(t, results[1].genome), AddTournamentWin(t, results[1].genome)}
    \cup {UpsertElite(t, results, i, EliteCount(Len(results))) :
            i \in 0..(EliteCount(Len(results)) - 1)}
    \cup updateStrategyStats(t, results)

\* What a statement does to each table when the driver runs it.
EntriesAfter(entries, st) ==
    CASE st.kind = "INSERT INTO tournament_entries" ->
            entries \cup {[tournament_id |-> st.tournament, genome_id |-> st.genome_id,
                           avg_score |-> st.avg, max_score |-> st.max_score,
                           total_lines |-> st.total_lines, games_played |-> st.games,
                           rank |-> NULL]}
      [] st.kind = "UPDATE tournament_entries SET rank" ->
            {IF e.tournament_id = st.tournament /\ e.genome_id = st.genome_id
                THEN [e EXCEPT !.rank = NotNull(st.rank)] ELSE e : e \in entries}
      [] OTHER -> entries
TournamentsAfter(tours, st) ==
    IF st.kind = "UPDATE tournaments SET status = 'completed'"
    THEN [tours EXCEPT ![st.tournament].status = "completed",
                       ![st.tournament].winner_id = NotNull(st.genome_id)]
    ELSE tours
GenomesAfter(table, st) ==
    IF st.kind = "UPDATE genomes SET tournament_wins" /\ st.genome_id \in DOMAIN table
    THEN [table EXCEPT ![st.genome_id].tournament_wins = @ + 1]
    ELSE table
\* COALESCE((SELECT total_tournament_wins FROM elite_genomes WHERE genome_id = ?), 0) + ?
EliteAfter(table, st) ==
    IF st.kind = "INSERT OR REPLACE INTO elite_genomes"
    THEN MapSet(table, st.genome_id,
                [total_tournament_wins |->
                    (IF st.genome_id \in DOMAIN table
                        THEN table[st.genome_id].total_tournament_wins ELSE 0) + st.wins,
                 avg_tournament_score |-> st.avg,
                 dominance_score |-> st.dominance])
    ELSE table
StrategyStatsAfter(table, st) ==
    IF st.kind = "INSERT OR REPLACE INTO strategy_stats"
    THEN MapSet(table, st.strategy,
                [total_genomes |-> st.games, avg_score |-> st.avg, best_score |-> st.max_score])
    ELSE table

\* ------------------------------------------------- tournament: the server
ServerIds == {<<64 + k>> : k \in 1..MaxParticipants}
ServerWeightVectors ==
    {WeightList[1],
     [aggregateHeight |-> 0, completeLines |-> 0, holes |-> 0, bumpiness |-> 0]}
\* Math.floor(Math.random() * 1000000)
Seeds == {(k * 611953) % 1000000 : k \in 1..MaxSeeds}

\* simulateTetrisGames(genome, config, seed) called on one genome and one
\* config with one seed and then with another.
SimulatedWeightVectors ==
    WeightVectors
    \cup {[aggregateHeight |-> MaxValue, completeLines |-> 0, holes |-> 0, bumpiness |-> 0],
          [aggregateHeight |-> -2, completeLines |-> MaxValue, holes |-> 1, bumpiness |-> 0]}
SimulateStart ==
    /\ simPc = "start"
    /\ simArgs \in [genome : {GenomeRow(<<65>>, w) : w \in SimulatedWeightVectors},
                     config : Configs,
                     seeds : {pair \in Seeds \X Seeds : pair[1] # pair[2]}]
    /\ simRuns = <<>>
SimulateCall ==
    /\ simPc = "start"
    /\ simRuns' = Append(simRuns, simulateTetrisGames(simArgs.genome, simArgs.config,
                                                       simArgs.seeds[Len(simRuns) + 1]))
    /\ simPc' = IF Len(simRuns) + 1 = Len(simArgs.seeds) THEN "done" ELSE "start"
    /\ UNCHANGED simArgs
\* A JSON value of a request body as the handler looks at it: its typeof,
\* whether it is NaN, whether !value holds, and the number it is.
JsonNumber(n) == [type |-> "number", nan |-> FALSE, falsy |-> n = 0, value |-> n]
JsonNaN == [type |-> "number", nan |-> TRUE, falsy |-> TRUE, value |-> 0]
JsonString == [type |-> "string", nan |-> FALSE, falsy |-> FALSE, value |-> 0]
JsonNull == [type |-> "object", nan |-> FALSE, falsy |-> TRUE, value |-> 0]
JsonUndefined == [type |-> "undefined", nan |-> FALSE, falsy |-> TRUE, value |-> 0]
\* const requiredWeights = ['aggregateHeight', 'completeLines', 'holes', 'bumpiness']
requiredWeights == <<"aggregateHeight", "completeLines", "holes", "bumpiness">>
\* req.body.weights: an object with its properties, or a value that has none
\* of them.
JsonObject(fields) == [type |-> "object", falsy |-> FALSE, fields |-> fields]
JsonScalar(v) ==
    [type |-> v.type, falsy |-> v.falsy,
     fields |-> [key \in {requiredWeights[k] : k \in 1..4} |-> JsonUndefined]]
NumericWeights(w) ==
    JsonObject([key \in {requiredWeights[k] : k \in 1..4} |-> JsonNumber(w[key])])

\* A request body: SubmitBody is one the validation of the submit endpoint
\* accepts.
Body(id, jsonWeights, bestScore, strategy) ==
    [id |-> id, weights |-> jsonWeights,
     metadata |-> [bestScore |-> bestScore, strategy |-> strategy]]
SubmitBody(id, w, bestScore) == Body(id, NumericWeights(w), bestScore, classifyStrategy(w))
SubmitBodies ==
    {SubmitBody(id, w, bestScore) :
        id \in ServerIds, w \in ServerWeightVectors, bestScore \in GameScores}

\* A runTournament call: waiting for the SELECT, waiting for the INSERT INTO
\* tournaments, or resolved with null or the tournament id.
Run(pc, selected, seed, value) ==
    [pc |-> pc, selected |-> selected, seed |-> seed, value |-> value]

\* The server after initDatabase and new TournamentEngine().
ServerStart ==
    /\ genomesTable = EmptyMap
    /\ tournamentsTable = <<>>
    /\ entriesTable = {}
    /\ eliteTable = EmptyMap
    /\ strategyStatsTable = EmptyMap
    /\ pendingStatements = {}
    /\ runningTournament = NULL
    /\ runs = <<>>
    /\ simulations = {}
    /\ requests = 0

\* Bodies the validation turns down: weights missing, null, a string, a
\* number, an object without the properties, and an object in which one
\* property is missing, a string, null or NaN.  (JSON.parse yields no NaN;
\* the handler is handed one all the same.)
BadWeights ==
    {JsonScalar(v) : v \in {JsonUndefined, JsonNull, JsonString, JsonNumber(7)}}
    \cup {[JsonScalar(JsonUndefined) EXCEPT !.type = "object", !.falsy = FALSE]}
    \cup {[NumericWeights(WeightList[1]) EXCEPT !.fields[key] = v] :
            key \in {requiredWeights[k] : k \in 1..4},
            v \in {JsonUndefined, JsonNull, JsonString, JsonNaN}}
BadBodies == {Body(id, w, QualifyingScore, "unknown") : id \in ServerIds, w \in BadWeights}
RequestBodies == SubmitBodies \cup BadBodies

\* The validation of the handler: the first return res.status(400) it
\* reaches, or the answer of the db.run callback.
NoKey == ""
\* typeof weights[key] !== 'number', without the isNaN
InvalidWeightTypeOnly(v) == v.type # "number"
\* typeof weights[key] !== 'number' || isNaN(weights[key])
InvalidWeight(v) == v.type # "number" \/ v.nan
InvalidKeys(w) == {k \in 1..4 : InvalidWeight(w.fields[requiredWeights[k]])}
FirstInvalidKey(w) == requiredWeights[CHOOSE k \in InvalidKeys(w) : \A j \in InvalidKeys(w) : k <= j]
Response(status, error, key) == [status |-> status, error |-> error, key |-> key]
NoResponse == Response(0, "", NoKey)
SubmitResponse(body) ==
    IF body.weights.falsy \/ body.weights.type # "object"
    THEN Response(400, "Invalid weights", NoKey)
    ELSE IF InvalidKeys(body.weights) # {}
         THEN Response(400, "Invalid weight", FirstInvalidKey(body.weights))
         ELSE Response(200, "", NoKey)

\* POST /api/tournament/submit: a body the validation turns down is answered
\* with 400 before db.run; for any other the INSERT OR REPLACE runs.
GenomesAfterSubmit(table, body) ==
    IF SubmitResponse(body).status = 400 THEN table
    ELSE MapSet(table, body.id, StoredGenome(body))
Submit(body) ==
    /\ genomesTable' = GenomesAfterSubmit(genomesTable, body)
    /\ requests' = requests + 1
    /\ UNCHANGED <<tournamentsTable, entriesTable, eliteTable, strategyStatsTable,
                   pendingStatements, runningTournament, runs, simulations>>
SubmitGenome ==
    /\ requests < MaxRequests
    /\ \E body \in RequestBodies : Submit(body)

\* One request, with its body and its answer kept.
SubmitTables ==
    {EmptyMap}
    \cup {GenomesAfterSubmit(EmptyMap, a) : a \in SubmitBodies}
    \cup {GenomesAfterSubmit(GenomesAfterSubmit(EmptyMap, a), b) : a, b \in SubmitBodies}
SubmitStart ==
    /\ submitBody \in RequestBodies
    /\ submitResponse = NoResponse
    /\ genomesTable \in SubmitTables
    /\ tournamentsTable = <<>>
    /\ entriesTable = {}
    /\ eliteTable = EmptyMap
    /\ strategyStatsTable = EmptyMap
    /\ pendingStatements = {}
    /\ runningTournament = NULL
    /\ runs = <<>>
    /\ simulations = {}
    /\ requests = Cardinality(DOMAIN genomesTable)
HandleSubmit ==
    /\ submitResponse = NoResponse
    /\ Submit(submitBody)
    /\ submitResponse' = SubmitResponse(submitBody)
    /\ UNCHANGED submitBody

\* runTournament up to db.all: the call of startScheduledTournaments, of the
\* interval timer, or of the admin endpoint.
RunTournament ==
    /\ runningTournament = NULL
    /\ Len(runs) < MaxRuns
    /\ runs' = Append(runs, Run("select", <<>>, 0, NULL))
    /\ UNCHANGED <<genomesTable, tournamentsTable, entriesTable, eliteTable,
                   strategyStatsTable, pendingStatements, runningTournament,
                   simulations, requests>>

TooFewWhenNone(selected) == Len(selected) < 1
\* if (genomes.length < 2)
TooFew(selected) == Len(selected) < 2

\* The SELECT runs and its callback is called: with fewer than two genomes
\* the promise resolves with null, otherwise the seed is drawn and the
\* INSERT INTO tournaments is handed to the driver.
SelectDone ==
    \E r \in DOMAIN runs :
        /\ runs[r].pc = "select"
        /\ \E selected \in SelectPending(genomesTable, entriesTable, tournamentsTable) :
            IF TooFew(selected)
            THEN runs' = [runs EXCEPT ![r] = Run("resolved", <<>>, 0, NULL)]
            ELSE \E seed \in Seeds :
                    runs' = [runs EXCEPT ![r] = Run("insert", selected, seed, NULL)]
        /\ UNCHANGED <<genomesTable, tournamentsTable, entriesTable, eliteTable,
                       strategyStatsTable, pendingStatements, runningTournament,
                       simulations, requests>>

SimulationRecord(t, r) ==
    [tournament_id |-> t, genome_id |-> r.genome.id, rngKey |-> r.results.rngKey,
     pieceTypes |-> r.results.pieceTypes]

\* The INSERT INTO tournaments runs and its callback is called with this.lastID:
\* every selected genome is simulated, and all the statements of the
\* tournament are handed to the driver at once.  The callback is a function,
\* so its this.runningTournament = null sets a property of the statement
\* and leaves the engine's field alone.
Started(t, results, r) ==
    /\ pendingStatements' = pendingStatements \cup CallbackStatements(t, results, TournamentConfig)
    /\ simulations' = simulations \cup {SimulationRecord(t, results[k]) : k \in DOMAIN results}
    /\ runs' = [runs EXCEPT ![r] = Run("resolved", <<>>, 0, NotNull(t))]
InsertDone ==
    \E r \in DOMAIN runs :
        /\ runs[r].pc = "insert"
        /\ tournamentsTable' =
              Append(tournamentsTable,
                     [status |-> "running", seed |-> runs[r].seed, winner_id |-> NULL,
                      total_participants |-> Len(runs[r].selected)])
        /\ Started(Len(tournamentsTable) + 1,
                   SortByAvgScore(SimulateAll(runs[r].selected, TournamentConfig, runs[r].seed)),
                   r)
        /\ UNCHANGED <<genomesTable, entriesTable, eliteTable, strategyStatsTable,
                       runningTournament, requests>>

\* The driver runs one of the statements it was handed.  The statements were
\* issued outside db.serialize, so the driver is in its default parallel mode
\* and runs them in any order.
Execute(st) ==
    /\ pendingStatements' = pendingStatements \ {st}
    /\ entriesTable' = EntriesAfter(entriesTable, st)
    /\ tournamentsTable' = TournamentsAfter(tournamentsTable, st)
    /\ genomesTable' = GenomesAfter(genomesTable, st)
    /\ eliteTable' = EliteAfter(eliteTable, st)
    /\ strategyStatsTable' = StrategyStatsAfter(strategyStatsTable, st)
    /\ UNCHANGED <<runningTournament, runs, simulations, requests>>
ExecStatement == \E st \in pendingStatements : Execute(st)

\* A further runTournament call, of the interval timer, made after the one
\* of startScheduledTournaments.
RunTournamentAgain ==
    /\ runningTournament = NULL
    /\ runs # <<>>
    /\ Len(runs) < MaxRuns + MaxFurtherRuns
    /\ runs' = Append(runs, Run("select", <<>>, 0, NULL))
    /\ UNCHANGED <<genomesTable, tournamentsTable, entriesTable, eliteTable,
                   strategyStatsTable, pendingStatements, runningTournament,
                   simulations, requests>>

\* The driver runs one of the statements on tournament_entries' rows or on
\* tournaments that it was handed; the others stay with the driver.
ExecEntryStatement ==
    \E st \in {x \in pendingStatements :
                  x.kind \in {"INSERT INTO tournament_entries",
                              "UPDATE tournaments SET status = 'completed'"}} :
        Execute(st)

\* The server with two accepted genomes and no tournament yet.
OverlapTables ==
    {GenomesAfterSubmit(GenomesAfterSubmit(EmptyMap, a), b) :
        a \in {x \in SubmitBodies : x.metadata.bestScore = 100000},
        b \in {x \in SubmitBodies : x.metadata.bestScore = 50000}}
OverlapStart ==
    /\ genomesTable \in {table \in OverlapTables : Cardinality(DOMAIN table) = 2}
    /\ tournamentsTable = <<>>
    /\ entriesTable = {}
    /\ eliteTable = EmptyMap
    /\ strategyStatsTable = EmptyMap
    /\ pendingStatements = {}
    /\ runningTournament = NULL
    /\ runs = <<>>
    /\ simulations = {}
    /\ requests = 2

\* ------------------------------------------- tournament: the elite share
\* A tournament of n genomes whose INSERT INTO tournaments is about to run:
\* the genomes were submitted with one best_score and selected in the order
\* of their ids; the pattern says which of them carry the first weights.
PoolPatterns == {[modulus |-> m, residue |-> r] : m \in 2..3, r \in 0..1}
PoolGenome(k, pattern) ==
    StoredGenome(SubmitBody(<<64 + k>>,
                            IF k % pattern.modulus = pattern.residue
                                THEN WeightList[1]
                                ELSE [aggregateHeight |-> 0, completeLines |-> 0,
                                      holes |-> 0, bumpiness |-> 0],
                            QualifyingScore))
ElitePoolStart ==
    \E n \in 2..MaxElitePool, pattern \in PoolPatterns, seed \in Seeds :
        /\ genomesTable = [id \in {<<64 + k>> : k \in 1..n} |-> PoolGenome(id[1] - 64, pattern)]
        /\ runs = <<Run("insert", [k \in 1..n |-> PoolGenome(k, pattern)], seed, NULL)>>
        /\ tournamentsTable = <<>>
        /\ entriesTable = {}
        /\ eliteTable = EmptyMap
        /\ strategyStatsTable = EmptyMap
        /\ pendingStatements = {}
        /\ runningTournament = NULL
        /\ simulations = {}
        /\ requests = n

\* The driver runs one of the INSERT OR REPLACE INTO elite_genomes.
ExecElite ==
    \E st \in {x \in pendingStatements : x.kind = "INSERT OR REPLACE INTO elite_genomes"} :
        Execute(st)

\* ------------------------------------------------------- specifications
EvalIdle ==
    /\ evalPc = "idle"
    /\ grid = <<>>
    /\ weights = <<>>
    /\ evalFeatures = FeatureRecord(0, 0, 0, 0)
    /\ evalScore = 0

GameIdle ==
    /\ gamePc = "idle"
    /\ genome = <<>>
    /\ config = <<>>
    /\ board = <<>>
    /\ score = 0
    /\ lines = 0
    /\ pieces = 0
    /\ pieceType = 0
    /\ gameResult = NoResult

ClientIdle == ClientStart
IdIdle == idPc = "idle" /\ idArgs = <<>> /\ idResults = <<>>
ServerIdle == ServerStart
PlaceIdle == placePc = "idle" /\ placeArgs = <<>> /\ placeResult = NoPlacement
PageIdle == aiPopulation = <<>>
SimilarIdle == lineageOf = NoItem /\ convergent = <<>>
MixIdle == mixPc = "idle" /\ mixArgs = <<>> /\ mixResult = <<>>
SimIdle == simPc = "idle" /\ simArgs = <<>> /\ simRuns = <<>>
SubmitIdle == submitBody = Body(<<>>, JsonScalar(JsonUndefined), 0, "") /\ submitResponse = NoResponse

EvalInit == EvalStart /\ GameIdle /\ ClientIdle /\ IdIdle /\ ServerIdle /\ SubmitIdle /\ PlaceIdle /\ PageIdle /\ SimilarIdle /\ MixIdle /\ SimIdle
EvalNext == EvaluateBoardCall /\ UNCHANGED <<gameVars, clientVars, idVars, serverVars, submitVars, placeVars, pageVars, similarVars, mixVars, simVars>>
SpecEval == EvalInit /\ [][EvalNext]_vars

GameInit == GameStart /\ EvalIdle /\ ClientIdle /\ IdIdle /\ ServerIdle /\ SubmitIdle /\ PlaceIdle /\ PageIdle /\ SimilarIdle /\ MixIdle /\ SimIdle
GameNext ==
    \/ GameLoop /\ UNCHANGED <<evalVars, clientVars, idVars, serverVars, submitVars, placeVars, pageVars, similarVars, mixVars, simVars>>
    \/ GameReturn /\ UNCHANGED <<evalVars, clientVars, idVars, serverVars, submitVars, placeVars, pageVars, similarVars, mixVars, simVars>>
SpecGame == GameInit /\ [][GameNext]_vars

\* One simulated game of an accepted genome.
AcceptedGameInit == AcceptedGameStart /\ EvalIdle /\ ClientIdle /\ IdIdle /\ ServerIdle /\ SubmitIdle /\ PlaceIdle /\ PageIdle /\ SimilarIdle /\ MixIdle /\ SimIdle
SpecAcceptedGame == AcceptedGameInit /\ [][GameNext]_vars

\* The submission queue of the browser.
QueueInit == ClientStart /\ EvalIdle /\ GameIdle /\ IdIdle /\ ServerIdle /\ SubmitIdle /\ PlaceIdle /\ PageIdle /\ SimilarIdle /\ MixIdle /\ SimIdle
QueueNext ==
    \/ RegisterGenome /\ UNCHANGED <<evalVars, gameVars, idVars, serverVars, submitVars, placeVars, pageVars, similarVars, mixVars, simVars>>
    \/ UpdatePerformance /\ UNCHANGED <<evalVars, gameVars, idVars, serverVars, submitVars, placeVars, pageVars, similarVars, mixVars, simVars>>
    \/ UiSubmit /\ UNCHANGED <<evalVars, gameVars, idVars, serverVars, submitVars, placeVars, pageVars, similarVars, mixVars, simVars>>
    \/ FetchOk /\ UNCHANGED <<evalVars, gameVars, idVars, serverVars, submitVars, placeVars, pageVars, similarVars, mixVars, simVars>>
    \/ FetchFails /\ UNCHANGED <<evalVars, gameVars, idVars, serverVars, submitVars, placeVars, pageVars, similarVars, mixVars, simVars>>
    \/ RetryStart /\ UNCHANGED <<evalVars, gameVars, idVars, serverVars, submitVars, placeVars, pageVars, similarVars, mixVars, simVars>>
    \/ RetryIterate /\ UNCHANGED <<evalVars, gameVars, idVars, serverVars, submitVars, placeVars, pageVars, similarVars, mixVars, simVars>>
    \/ RetryCatch /\ UNCHANGED <<evalVars, gameVars, idVars, serverVars, submitVars, placeVars, pageVars, similarVars, mixVars, simVars>>
    \/ RetryEnd /\ UNCHANGED <<evalVars, gameVars, idVars, serverVars, submitVars, placeVars, pageVars, similarVars, mixVars, simVars>>
    \/ Reload /\ UNCHANGED <<evalVars, gameVars, idVars, serverVars, submitVars, placeVars, pageVars, similarVars, mixVars, simVars>>
SpecQueue == QueueInit /\ [][QueueNext]_vars

\* The submission queue of one page, never loaded again.
RetryInit == ClientStart /\ EvalIdle /\ GameIdle /\ IdIdle /\ ServerIdle /\ SubmitIdle /\ PlaceIdle /\ PageIdle /\ SimilarIdle /\ MixIdle /\ SimIdle
RetryNext ==
    \/ RegisterGenome /\ UNCHANGED <<evalVars, gameVars, idVars, serverVars, submitVars, placeVars, pageVars, similarVars, mixVars, simVars>>
    \/ UpdatePerformance /\ UNCHANGED <<evalVars, gameVars, idVars, serverVars, submitVars, placeVars, pageVars, similarVars, mixVars, simVars>>
    \/ UiSubmit /\ UNCHANGED <<evalVars, gameVars, idVars, serverVars, submitVars, placeVars, pageVars, similarVars, mixVars, simVars>>
    \/ FetchOk /\ UNCHANGED <<evalVars, gameVars, idVars, serverVars, submitVars, placeVars, pageVars, similarVars, mixVars, simVars>>
    \/ FetchFails /\ UNCHANGED <<evalVars, gameVars, idVars, serverVars, submitVars, placeVars, pageVars, similarVars, mixVars, simVars>>
    \/ RetryStart /\ UNCHANGED <<evalVars, gameVars, idVars, serverVars, submitVars, placeVars, pageVars, similarVars, mixVars, simVars>>
    \/ RetryIterate /\ UNCHANGED <<evalVars, gameVars, idVars, serverVars, submitVars, placeVars, pageVars, similarVars, mixVars, simVars>>
    \/ RetryCatch /\ UNCHANGED <<evalVars, gameVars, idVars, serverVars, submitVars, placeVars, pageVars, similarVars, mixVars, simVars>>
    \/ RetryEnd /\ UNCHANGED <<evalVars, gameVars, idVars, serverVars, submitVars, placeVars, pageVars, similarVars, mixVars, simVars>>
SpecRetry == RetryInit /\ [][RetryNext]_vars

\* The genome registry of the browser under the evolution tracking.
RegistryInit == ClientStart /\ EvalIdle /\ GameIdle /\ IdIdle /\ ServerIdle /\ SubmitIdle /\ PlaceIdle /\ PageIdle /\ SimilarIdle /\ MixIdle /\ SimIdle
RegistryNext ==
    \/ SaveAIWeights /\ UNCHANGED <<evalVars, gameVars, idVars, serverVars, submitVars, placeVars, pageVars, similarVars, mixVars, simVars>>
    \/ LoadAIWeights /\ UNCHANGED <<evalVars, gameVars, idVars, serverVars, submitVars, placeVars, pageVars, similarVars, mixVars, simVars>>
    \/ FetchEliteGenomes /\ UNCHANGED <<evalVars, gameVars, idVars, serverVars, submitVars, placeVars, pageVars, similarVars, mixVars, simVars>>
    \/ ImportEliteGenome /\ UNCHANGED <<evalVars, gameVars, idVars, serverVars, submitVars, placeVars, pageVars, similarVars, mixVars, simVars>>
    \/ Reload /\ UNCHANGED <<evalVars, gameVars, idVars, serverVars, submitVars, placeVars, pageVars, similarVars, mixVars, simVars>>
SpecRegistry == RegistryInit /\ [][RegistryNext]_vars

\* The family tree of the browser: tracking, imports and mixes.
LineageInit == ClientStart /\ EvalIdle /\ GameIdle /\ IdIdle /\ ServerIdle /\ SubmitIdle /\ PlaceIdle /\ PageIdle /\ SimilarIdle /\ MixIdle /\ SimIdle
LineageNext ==
    \/ SaveAIWeights /\ UNCHANGED <<evalVars, gameVars, idVars, serverVars, submitVars, placeVars, pageVars, similarVars, mixVars, simVars>>
    \/ LoadAIWeights /\ UNCHANGED <<evalVars, gameVars, idVars, serverVars, submitVars, placeVars, pageVars, similarVars, mixVars, simVars>>
    \/ FetchEliteGenomes /\ UNCHANGED <<evalVars, gameVars, idVars, serverVars, submitVars, placeVars, pageVars, similarVars, mixVars, simVars>>
    \/ ImportEliteGenome /\ UNCHANGED <<evalVars, gameVars, idVars, serverVars, submitVars, placeVars, pageVars, similarVars, mixVars, simVars>>
    \/ MixStrategies /\ UNCHANGED <<evalVars, gameVars, idVars, serverVars, submitVars, placeVars, pageVars, similarVars, mixVars, simVars>>
SpecLineage == LineageInit /\ [][LineageNext]_vars

\* The page's running population: saves by the game and imports.
PageInit == PageStart /\ EvalIdle /\ GameIdle /\ IdIdle /\ ServerIdle /\ SubmitIdle /\ PlaceIdle /\ SimilarIdle /\ MixIdle /\ SimIdle
PageNext ==
    \/ GameSaves /\ UNCHANGED <<evalVars, gameVars, idVars, serverVars, submitVars, placeVars, similarVars, mixVars, simVars>>
    \/ PageImportElite /\ UNCHANGED <<evalVars, gameVars, idVars, serverVars, submitVars, placeVars, similarVars, mixVars, simVars>>
SpecPage == PageInit /\ [][PageNext]_vars

\* Convergent evolution in the lineage panel.
SimilarInit == ClientStart /\ SimilarIdle /\ EvalIdle /\ GameIdle /\ IdIdle /\ ServerIdle /\ SubmitIdle /\ PlaceIdle /\ PageIdle /\ MixIdle /\ SimIdle
SimilarNext ==
    \/ SaveMutants /\ UNCHANGED <<evalVars, gameVars, idVars, serverVars, submitVars, placeVars, pageVars, similarVars, mixVars, simVars>>
    \/ DisplayLineage /\ UNCHANGED <<evalVars, gameVars, idVars, serverVars, submitVars, placeVars, pageVars, mixVars, simVars>>
SpecSimilar == SimilarInit /\ [][SimilarNext]_vars

\* Two simulateTetrisGames calls that differ in the seed.
SimulateInit == SimulateStart /\ EvalIdle /\ GameIdle /\ ClientIdle /\ IdIdle /\ ServerIdle /\ SubmitIdle /\ PlaceIdle /\ PageIdle /\ SimilarIdle /\ MixIdle
SimulateNext == SimulateCall /\ UNCHANGED <<evalVars, gameVars, clientVars, idVars, serverVars, submitVars, placeVars, pageVars, similarVars, mixVars>>
SpecSimulate == SimulateInit /\ [][SimulateNext]_vars

\* The arithmetic of one mixStrategies call.
MixInit == MixStart /\ ClientIdle /\ SimilarIdle /\ EvalIdle /\ GameIdle /\ IdIdle /\ ServerIdle /\ SubmitIdle /\ PlaceIdle /\ PageIdle /\ SimIdle
MixNext == MixWeights /\ UNCHANGED <<evalVars, gameVars, clientVars, idVars, serverVars, submitVars, placeVars, pageVars, similarVars, simVars>>
SpecMix == MixInit /\ [][MixNext]_vars

\* runTournament calls that overlap.
OverlapInit == OverlapStart /\ EvalIdle /\ GameIdle /\ ClientIdle /\ IdIdle /\ SubmitIdle /\ PlaceIdle /\ PageIdle /\ SimilarIdle /\ MixIdle /\ SimIdle
OverlapNext ==
    \/ RunTournament /\ UNCHANGED <<evalVars, gameVars, clientVars, idVars, submitVars, placeVars, pageVars, similarVars, mixVars, simVars>>
    \/ RunTournamentAgain /\ UNCHANGED <<evalVars, gameVars, clientVars, idVars, submitVars, placeVars, pageVars, similarVars, mixVars, simVars>>
    \/ SelectDone /\ UNCHANGED <<evalVars, gameVars, clientVars, idVars, submitVars, placeVars, pageVars, similarVars, mixVars, simVars>>
    \/ InsertDone /\ UNCHANGED <<evalVars, gameVars, clientVars, idVars, submitVars, placeVars, pageVars, similarVars, mixVars, simVars>>
    \/ ExecEntryStatement /\ UNCHANGED <<evalVars, gameVars, clientVars, idVars, submitVars, placeVars, pageVars, similarVars, mixVars, simVars>>
SpecOverlap == OverlapInit /\ [][OverlapNext]_vars

\* Identifiers of two registrations.
IdentifierInit == IdStart /\ EvalIdle /\ GameIdle /\ ClientIdle /\ ServerIdle /\ SubmitIdle /\ PlaceIdle /\ PageIdle /\ SimilarIdle /\ MixIdle /\ SimIdle
IdentifierNext == RegisterTwice /\ UNCHANGED <<evalVars, gameVars, clientVars, serverVars, submitVars, placeVars, pageVars, similarVars, mixVars, simVars>>
SpecIdentifier == IdentifierInit /\ [][IdentifierNext]_vars

\* The tournament server.
TournamentInit == ServerStart /\ EvalIdle /\ GameIdle /\ ClientIdle /\ IdIdle /\ SubmitIdle /\ PlaceIdle /\ PageIdle /\ SimilarIdle /\ MixIdle /\ SimIdle
TournamentNext ==
    \/ SubmitGenome /\ UNCHANGED <<evalVars, gameVars, clientVars, idVars, submitVars, placeVars, pageVars, similarVars, mixVars, simVars>>
    \/ RunTournament /\ UNCHANGED <<evalVars, gameVars, clientVars, idVars, submitVars, placeVars, pageVars, similarVars, mixVars, simVars>>
    \/ SelectDone /\ UNCHANGED <<evalVars, gameVars, clientVars, idVars, submitVars, placeVars, pageVars, similarVars, mixVars, simVars>>
    \/ InsertDone /\ UNCHANGED <<evalVars, gameVars, clientVars, idVars, submitVars, placeVars, pageVars, similarVars, mixVars, simVars>>
    \/ ExecStatement /\ UNCHANGED <<evalVars, gameVars, clientVars, idVars, submitVars, placeVars, pageVars, similarVars, mixVars, simVars>>
SpecTournament == TournamentInit /\ [][TournamentNext]_vars

\* One findBestPlacement call.
PlaceInit == PlaceStart /\ EvalIdle /\ GameIdle /\ ClientIdle /\ IdIdle /\ ServerIdle /\ SubmitIdle /\ PageIdle /\ SimilarIdle /\ MixIdle /\ SimIdle
PlaceNext == FindBestPlacementCall /\ UNCHANGED <<evalVars, gameVars, clientVars, idVars, serverVars, submitVars, pageVars, similarVars, mixVars, simVars>>
SpecPlace == PlaceInit /\ [][PlaceNext]_vars

\* One submit request and the tournament after it.
SubmitInit == SubmitStart /\ EvalIdle /\ GameIdle /\ ClientIdle /\ IdIdle /\ PlaceIdle /\ PageIdle /\ SimilarIdle /\ MixIdle /\ SimIdle
SubmitNext ==
    \/ HandleSubmit /\ UNCHANGED <<evalVars, gameVars, clientVars, idVars, placeVars, pageVars, similarVars, mixVars, simVars>>
    \/ RunTournament /\ UNCHANGED <<evalVars, gameVars, clientVars, idVars, submitVars, placeVars, pageVars, similarVars, mixVars, simVars>>
    \/ SelectDone /\ UNCHANGED <<evalVars, gameVars, clientVars, idVars, submitVars, placeVars, pageVars, similarVars, mixVars, simVars>>
    \/ InsertDone /\ UNCHANGED <<evalVars, gameVars, clientVars, idVars, submitVars, placeVars, pageVars, similarVars, mixVars, simVars>>
SpecSubmit == SubmitInit /\ [][SubmitNext]_vars

\* The elite share of one tournament.
EliteInit == ElitePoolStart /\ EvalIdle /\ GameIdle /\ ClientIdle /\ IdIdle /\ SubmitIdle /\ PlaceIdle /\ PageIdle /\ SimilarIdle /\ MixIdle /\ SimIdle
EliteNext ==
    \/ InsertDone /\ UNCHANGED <<evalVars, gameVars, clientVars, idVars, submitVars, placeVars, pageVars, similarVars, mixVars, simVars>>
    \/ ExecElite /\ UNCHANGED <<evalVars, gameVars, clientVars, idVars, submitVars, placeVars, pageVars, similarVars, mixVars, simVars>>
SpecElite == EliteInit /\ [][EliteNext]_vars

\* ---------------------------------------------------------------------
\* Reference magnitudes of a grid, stated on the cells and not by a scan.
BlockRows(b, x) == {y \in Rows(b) : b[y][x] = 1}
TopBlock(b, x) == CHOOSE y \in BlockRows(b, x) : \A z \in BlockRows(b, x) : y <= z
RawHeight(b, x) ==
    IF BlockRows(b, x) = {} THEN 0 ELSE Len(b) - TopBlock(b, x) + 1
RawAggregateHeight(b) == SumSeq([x \in Cols(b) |-> RawHeight(b, x)])
RawHoles(b) ==
    Cardinality({c \in Cols(b) \X Rows(b) :
                    /\ b[c[2]][c[1]] = 0
                    /\ \E y \in Rows(b) : y < c[2] /\ b[y][c[1]] = 1})
RawBumpiness(b) ==
    SumSeq([i \in 1..(Len(b[1]) - 1) |->
               Abs(RawHeight(b, i) - RawHeight(b, i + 1))])
RawCompleteLines(b) == Cardinality({y \in Rows(b) : RowComplete(b[y])})

\* C1: evaluateBoard returns completeLinesWeight*L - heightWeight*H
\* - holesWeight*O - bumpinessWeight*B on the raw magnitudes L, H, O, B of the
\* grid, with no clamping or normalisation.
C1_EvaluateBoardFormula ==
    evalPc = "evaluated" =>
        evalScore = weights.completeLines * RawCompleteLines(grid)
                    - weights.aggregateHeight * RawAggregateHeight(grid)
                    - weights.holes * RawHoles(grid)
                    - weights.bumpiness * RawBumpiness(grid)

\* A grid with an overhang (a hole), uneven columns and a complete row has been
\* scored with four non-zero weights.
C1_Witness ==
    /\ evalPc = "evaluated"
    /\ RawHoles(grid) > 0
    /\ RawBumpiness(grid) > 0
    /\ RawCompleteLines(grid) > 0
    /\ \A k \in DOMAIN weights : weights[k] # 0
    /\ evalScore # 0

\* C2: a negative weight is a penalty and a positive weight a reward: the term
\* that the aggregateHeight, holes or bumpiness weight contributes to the score
\* is <= 0 when that weight is negative and >= 0 when it is positive.
C2_NegativeWeightPenalises ==
    evalPc = "evaluated" =>
        /\ weights.aggregateHeight < 0 => HeightTerm(weights, evalFeatures) <= 0
        /\ weights.aggregateHeight > 0 => HeightTerm(weights, evalFeatures) >= 0
        /\ weights.holes < 0 => HolesTerm(weights, evalFeatures) <= 0
        /\ weights.holes > 0 => HolesTerm(weights, evalFeatures) >= 0
        /\ weights.bumpiness < 0 => BumpinessTerm(weights, evalFeatures) <= 0
        /\ weights.bumpiness > 0 => BumpinessTerm(weights, evalFeatures) >= 0

\* C4: simulateSingleGame terminates for every genome and config: the loop ends
\* after at most config.maxPieces placed pieces and the returned pieces count is
\* <= config.maxPieces.  Stated with the variant config.maxPieces - pieces:
\* it is never negative, and every step of a running game either returns or
\* places exactly one more piece, so at most config.maxPieces iterations run.
C4_GameTerminates ==
    /\ [](pieces <= config.maxPieces)
    /\ [](gamePc = "returned" => gameResult.pieces <= config.maxPieces)
    /\ [][gamePc = "loop" => (gamePc' = "returned" \/ pieces' = pieces + 1)]_vars

\* A game that placed all of config.maxPieces > 0 pieces has returned.
C4_Witness ==
    /\ gamePc = "returned"
    /\ config.maxPieces = MaxPieces
    /\ gameResult.pieces = config.maxPieces
    /\ gameResult.lines > 0


\* ------------------------------------------------ submission queue claims
QueuedIds(queue) == {queue[i].id : i \in 1..Len(queue)}
HeldByRetry == UNION {QueuedIds(retry[t].queue) : t \in RetryTasks}

\* C5: a submission that was queued locally because the server could not be
\* reached is never dropped: until the server accepts it, its genome id is in
\* the submission queue, or in the hands of a running retry, also after the
\* page has been loaded again.
C5_QueuedSubmissionKept ==
    \A id \in undelivered : id \in QueuedIds(submissionQueue) \cup HeldByRetry

SnapshotQualifies(submission) ==
    /\ submission.metadata.bestScore >= 100000
    /\ submission.metadata.totalGamesPlayed >= 5
GenomeQualifies(db, id) ==
    /\ id \in DOMAIN db
    /\ db[id].metadata.bestScore >= 100000
    /\ db[id].metadata.totalGamesPlayed >= 5
\* A step in which submitToTournament is called for genomeId: from the page,
\* or from the loop of a retryQueuedSubmissions call.
PageCallStep == uiSubmits' = uiSubmits + 1
RetryCallStep(t) == retry[t].pc = "iterate" /\ retry'[t].pc \in {"awaiting", "caught"}
CallStarted == Len(calls') = Len(calls) + 1 /\ SubSeq(calls', 1, Len(calls)) = calls
NothingSentOrQueued ==
    /\ calls' = calls
    /\ submissionQueue' = submissionQueue
    /\ storedQueue' = storedQueue
    /\ genomeDatabase' = genomeDatabase
    /\ storedDatabase' = storedDatabase
SubmitStepRespectsRequirements ==
    /\ CallStarted =>
        /\ GenomeQualifies(genomeDatabase, calls'[Len(calls')].submission.id)
        /\ lastError' = "none"
    /\ ~CallStarted => lastError' # "none" /\ NothingSentOrQueued
    /\ lastError' = "Genome not found" => \A t \in RetryTasks : RetryCallStep(t) =>
           Head(retry[t].queue).id \notin DOMAIN genomeDatabase

C7_BestScoreNeverDecreases ==
    [][\A id \in (DOMAIN genomeDatabase) \cap (DOMAIN genomeDatabase') :
          genomeDatabase'[id].metadata.bestScore >= genomeDatabase[id].metadata.bestScore]_vars

\* The part of an identifier between "TETRIS-" and the second "-".
HashPart(id) == SubSeq(id, 8, 15)

C3_SameSeedForEveryParticipant ==
    \A a, b \in simulations :
        a.tournament_id = b.tournament_id =>
            /\ a.rngKey = b.rngKey
            /\ \A k \in (DOMAIN a.pieceTypes) \cap (DOMAIN b.pieceTypes) :
                    a.pieceTypes[k] = b.pieceTypes[k]

EntriesOf(t) == {e \in entriesTable : e.tournament_id = t}
\* C9: whenever a tournament has status 'completed', its N participants hold
\* the ranks 1..N, each rank exactly once, and a participant with a strictly
\* higher average score holds a strictly smaller rank.
C9_CompletedTournamentRanked ==
    \A t \in DOMAIN tournamentsTable :
        tournamentsTable[t].status = "completed" =>
            /\ Cardinality(EntriesOf(t)) = tournamentsTable[t].total_participants
            /\ \A k \in 1..tournamentsTable[t].total_participants :
                    Cardinality({e \in EntriesOf(t) : e.rank = NotNull(k)}) = 1
            /\ \A a, b \in EntriesOf(t) :
                    FractionLess(b.avg_score, a.avg_score) =>
                        /\ a.rank # NULL
                        /\ b.rank # NULL
                        /\ a.rank[1] < b.rank[1]

ElitePending(t) ==
    {st \in pendingStatements :
        st.kind = "INSERT OR REPLACE INTO elite_genomes" /\ st.tournament = t}
\* The participants the tournament ranks among its best count ones.
BestRanked(t, count) ==
    {st.genome_id :
        st \in {x \in pendingStatements :
                    /\ x.kind = "UPDATE tournament_entries SET rank"
                    /\ x.tournament = t
                    /\ x.rank <= count}}
\* C10: when a tournament with N participants completes, exactly the
\* max(1, floor(N/10)) best-ranked participants are inserted into the elite
\* set, the rank-1 participant is among them, and no lower-ranked participant
\* is added.
C10_TopTenthBecomesElite ==
    \A t \in DOMAIN tournamentsTable :
        /\ (DOMAIN eliteTable) \subseteq
                BestRanked(t, Max(1, tournamentsTable[t].total_participants \div 10))
        /\ ElitePending(t) = {} =>
                /\ DOMAIN eliteTable =
                        BestRanked(t, Max(1, tournamentsTable[t].total_participants \div 10))
                /\ Cardinality(DOMAIN eliteTable) =
                        Max(1, tournamentsTable[t].total_participants \div 10)
                /\ BestRanked(t, 1) \subseteq DOMAIN eliteTable
                /\ Cardinality(BestRanked(t, 1)) = 1
\* A tournament of at least twenty participants has put its two best into
\* the elite table.
C10_Witness ==
    \E t \in DOMAIN tournamentsTable :
        /\ tournamentsTable[t].total_participants >= 20
        /\ ElitePending(t) = {}
        /\ Cardinality(DOMAIN eliteTable) = 2
        /\ \E a, b \in DOMAIN eliteTable :
                eliteTable[a].total_tournament_wins = 1 /\ eliteTable[b].total_tournament_wins = 0

\* The weight vector is an object in which each of the four weights is a
\* number other than NaN.
WellFormedWeights(w) ==
    /\ w.type = "object"
    /\ ~w.falsy
    /\ \A key \in {"aggregateHeight", "completeLines", "holes", "bumpiness"} :
            w.fields[key].type = "number" /\ ~w.fields[key].nan
Answered == submitResponse # NoResponse
\* C11: a submission whose weight vector is missing or not an object, or in
\* which one of the four weights is missing, non-numeric or NaN, is answered
\* with status 400; the request stores nothing and issues no statement, no
\* row with other weights appears for its id, and every genome a tournament
\* selects and simulates is a row of the genomes table.
C11_InvalidWeightsRejected ==
    /\ [](Answered /\ ~WellFormedWeights(submitBody.weights) =>
            /\ submitResponse.status = 400
            /\ \A sim \in simulations : sim.genome_id \in DOMAIN genomesTable
            /\ \A r \in DOMAIN runs : \A k \in DOMAIN runs[r].selected :
                    /\ runs[r].selected[k].id \in DOMAIN genomesTable
                    /\ runs[r].selected[k] = genomesTable[runs[r].selected[k].id])
    /\ [][~WellFormedWeights(submitBody.weights) =>
            /\ genomesTable' = genomesTable
            /\ submitResponse' # submitResponse =>
                    /\ pendingStatements' = pendingStatements
                    /\ tournamentsTable' = tournamentsTable
                    /\ entriesTable' = entriesTable
                    /\ runs' = runs]_vars
\* A body whose holes weight is NaN was answered 400 with the key, its id has
\* no row, and the tournament started afterwards found too few genomes.
C11_Witness ==
    /\ submitBody.weights.fields.holes.nan
    /\ submitResponse = Response(400, "Invalid weight", "holes")
    /\ submitBody.id \notin DOMAIN genomesTable
    /\ \E r \in DOMAIN runs : runs[r].pc = "resolved" /\ runs[r].value = NULL

\* The candidate placements of a board: in each column the topmost empty
\* cell, if the column has one.
Candidates(b) ==
    {c \in Cols(b) \X Rows(b) :
        b[c[2]][c[1]] = 0 /\ \A y \in Rows(b) : y < c[2] => b[y][c[1]] # 0}
CandidateScore(b, c, w) == evaluateBoard([b EXCEPT ![c[2]][c[1]] = 1], w)
C13_HolesCountsCoveredEmptyCells ==
    evalPc = "evaluated" =>
        /\ Abs(evalFeatures.holes) = RawHoles(grid)
        /\ (\A y \in Rows(grid), x \in Cols(grid) : grid[y][x] = 1) => evalFeatures.holes = 0
\* A column with two empty cells under an overhang was scanned.
C13_Witness ==
    /\ evalPc = "evaluated"
    /\ \E x \in Cols(grid) :
            Cardinality({y \in Rows(grid) :
                            grid[y][x] = 0 /\ \E z \in Rows(grid) : z < y /\ grid[z][x] = 1}) >= 2
    /\ Abs(evalFeatures.holes) >= 2

\* C14: for every grid the holes value and the aggregateHeight value that
\* computeBoardFeatures returns are both >= 0.
C14_FeaturesNonNegative ==
    evalPc = "evaluated" =>
        evalFeatures.holes >= 0 /\ evalFeatures.aggregateHeight >= 0

\* C15: every genome with parents has a generation above that of each of
\* its parents found in the database, and a genome of generation 0 has no
\* parents.
C15_ChildGenerationAboveParents ==
    \A id \in DOMAIN genomeDatabase :
        LET g == genomeDatabase[id]
        IN /\ \A k \in DOMAIN g.metadata.parentIds :
                g.metadata.parentIds[k] \in DOMAIN genomeDatabase =>
                    g.metadata.generation >
                        genomeDatabase[g.metadata.parentIds[k]].metadata.generation
           /\ g.metadata.generation = 0 => g.metadata.parentIds = <<>>

\* C16: every genome of the database has two parent identifiers at most.
C16_AtMostTwoParents ==
    \A id \in DOMAIN genomeDatabase : Len(genomeDatabase[id].metadata.parentIds) <= 2

\* C17: a save of a population in which no genome has played a game since
\* the save before leaves totalGamesPlayed, bestScore and avgScore of every
\* genome of the database as they were.
SavedAgain ==
    /\ currentGeneration >= 1
    /\ currentGeneration' = currentGeneration + 1
    /\ aiPopulation' = aiPopulation
FitnessRecord(g) ==
    <<g.metadata.totalGamesPlayed, g.metadata.bestScore, g.performance.avgScore>>
C17_SaveWithoutGameKeepsFitnessRecord ==
    [][SavedAgain =>
          \A id \in DOMAIN genomeDatabase :
              /\ id \in DOMAIN genomeDatabase'
              /\ FitnessRecord(genomeDatabase'[id]) = FitnessRecord(genomeDatabase[id])]_vars

\* C20: no step of the page, an import least of all, changes the number of
\* genomes in the running population.
C20_ImportKeepsPopulationSize ==
    [][Len(aiPopulation') = Len(aiPopulation)]_vars

\* C18: a genome stands exactly once on the offspring list of each of its
\* parents that is in the database, and every id on an offspring list is a
\* genome of the database that names the owner of the list as a parent.
Occurrences(seq, x) == Cardinality({k \in DOMAIN seq : seq[k] = x})
C18_FamilyLinksConsistent ==
    /\ \A c \in DOMAIN genomeDatabase :
          \A k \in DOMAIN genomeDatabase[c].metadata.parentIds :
              LET p == genomeDatabase[c].metadata.parentIds[k]
              IN p \in DOMAIN genomeDatabase =>
                     Occurrences(genomeDatabase[p].metadata.offspring, c) = 1
    /\ \A p \in DOMAIN genomeDatabase :
          \A k \in DOMAIN genomeDatabase[p].metadata.offspring :
              LET c == genomeDatabase[p].metadata.offspring[k]
              IN /\ c \in DOMAIN genomeDatabase
                 /\ Occurrences(genomeDatabase[c].metadata.parentIds, p) >= 1

\* C19: every genome findSimilarGenomes returned for a genome g is not g,
\* not an ancestor and not a descendant of g, and its summed absolute weight
\* difference to g is above 0 and below the threshold.
ParentsIn(db, ids) ==
    {p \in DOMAIN db : \E c \in ids \cap DOMAIN db :
        \E k \in DOMAIN db[c].metadata.parentIds : db[c].metadata.parentIds[k] = p}
RECURSIVE AncestorsFrom(_, _)
AncestorsFrom(db, ids) ==
    IF ParentsIn(db, ids) \subseteq ids THEN ids
    ELSE AncestorsFrom(db, ids \cup ParentsIn(db, ids))
Ancestors(db, id) == AncestorsFrom(db, ParentsIn(db, {id}))
C19_SimilarAreOtherLineages ==
    lineageOf # NoItem =>
        \A k \in DOMAIN convergent :
            LET g == lineageOf[1]
                s == convergent[k].genome
            IN /\ s # g
               /\ s \notin Ancestors(genomeDatabase, g)
               /\ g \notin Ancestors(genomeDatabase, s)
               /\ convergent[k].difference > 0
               /\ convergent[k].difference < DisplayThreshold

MixScale(key) ==
    LET exponents == {mixArgs[i][key].e : i \in DOMAIN mixArgs} \cup {mixResult[key].e}
    IN CHOOSE e \in exponents : \A f \in exponents : e <= f
Scaled(a, e) == a.m * Pow2(a.e - e)
RECURSIVE ScaledSum(_, _, _)
ScaledSum(key, e, i) ==
    IF i > Len(mixArgs) THEN 0 ELSE Scaled(mixArgs[i][key], e) + ScaledSum(key, e, i + 1)
LargestSource(key, e) ==
    LET sizes == {Abs(Scaled(mixArgs[i][key], e)) : i \in DOMAIN mixArgs}
    IN CHOOSE a \in sizes : \A b \in sizes : b <= a

Eligible == (DOMAIN genomesTable) \ Participated(entriesTable, tournamentsTable)
SelectAnswered(r) == runs[r].pc = "select" /\ runs'[r].pc # "select"
C22_TooFewGenomesResolvesNull ==
    /\ [](\A t \in DOMAIN tournamentsTable : tournamentsTable[t].total_participants >= 2)
    /\ [][\A r \in DOMAIN runs :
             (SelectAnswered(r) /\ Cardinality(Eligible) < 2) =>
                 /\ runs'[r].pc = "resolved"
                 /\ runs'[r].value = NULL
                 /\ pendingStatements' = pendingStatements
                 /\ tournamentsTable' = tournamentsTable
                 /\ entriesTable' = entriesTable
                 /\ genomesTable' = genomesTable
                 /\ eliteTable' = eliteTable]_vars

\* A call has resolved with null while one genome was in the table.
C22_Witness ==
    /\ Cardinality(DOMAIN genomesTable) = 1
    /\ tournamentsTable = <<>>
    /\ \E r \in DOMAIN runs : runs[r].pc = "resolved" /\ runs[r].value = NULL

\* C23: at no moment do two tournaments have status 'running'.
C23_OneTournamentRunning ==
    Cardinality({t \in DOMAIN tournamentsTable : tournamentsTable[t].status = "running"}) <= 1

\* C26: no genome identifier has tournament entries in two tournaments.
C26_OneTournamentPerGenome ==
    \A a \in entriesTable, b \in entriesTable :
        a.genome_id = b.genome_id => a.tournament_id = b.tournament_id

\* ---------------------------------------------------------------- C24
\* The part of its local queue a retry still has to hand on: the submission it
\* awaits the call of is in the hands of that call.
PendingOf(t) == IF retry[t].pc = "awaiting" THEN Tail(retry[t].queue) ELSE retry[t].queue
InFlight == [i \in 1..Len(calls) |-> calls[i].submission]
Held == submissionQueue \o PendingOf(1) \o PendingOf(2) \o InFlight
Copies(id) == Cardinality({k \in DOMAIN Held : Held[k].id = id})
RetryReturns(t) ==
    retry[t].pc = "iterate" /\ retry[t].queue = <<>> /\ retry'[t].pc = "idle"

C25_WinnerHoldsRankOne ==
    \A t \in DOMAIN tournamentsTable :
        tournamentsTable[t].status = "completed" =>
            /\ tournamentsTable[t].winner_id # NULL
            /\ \E e \in EntriesOf(t) :
                    /\ NotNull(e.genome_id) = tournamentsTable[t].winner_id
                    /\ e.rank = NotNull(1)
                    /\ \A other \in EntriesOf(t) : ~FractionLess(e.avg_score, other.avg_score)

\* ---------------------------------------------------------------- C27
\* C27: a genome's tournament_wins count on the server never decreases: no
\* operation, a second submission of the same genome identifier included,
\* takes the row away or makes its count smaller.
C27_TournamentWinsNeverDecrease ==
    [][\A id \in DOMAIN genomesTable :
          /\ id \in DOMAIN genomesTable'
          /\ genomesTable'[id].tournament_wins >= genomesTable[id].tournament_wins]_vars

\* ---------------------------------------------------------------- C28
\* C28: for every genome whose four weights are finite numbers, a simulated
\* game never ends by game over: at the start of every loop iteration the
\* board has an empty cell and no fully occupied row, findBestPlacement does
\* not return null, and simulateSingleGame returns pieces = config.maxPieces.
C28_GameNeverOver ==
    /\ (gamePc = "loop" /\ LoopCondition(pieces, config)) =>
            /\ \E y \in Rows(board), x \in Cols(board) : board[y][x] = 0
            /\ \A y \in Rows(board) : ~RowComplete(board[y])
            /\ \A pt \in 0..(config.pieceTypes - 1) :
                    findBestPlacement(board, pt, GenomeWeights(genome)) # NoPlacement
    /\ gamePc = "returned" => gameResult.pieces = config.maxPieces

\* ---------------------------------------------------------------- C29
\* C29: the simulated result of a genome does not depend on the random seed
\* or on the generated piece types: two runs of simulateTetrisGames with the
\* same weights and config but different seeds return the same scores and
\* line counts, and within one run all games of the genome have the same
\* result, so its avgScore equals its maxScore.
C29_ResultIndependentOfSeed ==
    /\ \A a, b \in DOMAIN simRuns :
            /\ simRuns[a].games = simRuns[b].games
            /\ simRuns[a].avgScore = simRuns[b].avgScore
            /\ simRuns[a].maxScore = simRuns[b].maxScore
            /\ simRuns[a].totalLines = simRuns[b].totalLines
    /\ \A a \in DOMAIN simRuns :
            /\ \A j, k \in DOMAIN simRuns[a].games : simRuns[a].games[j] = simRuns[a].games[k]
            /\ simArgs.config.gamesPerGenome > 0 =>
                    simRuns[a].avgScore = Fraction(simRuns[a].maxScore, 1)
\* Two runs whose generators dealt different piece types, in games that
\* cleared lines.
C29_Witness ==
    /\ simPc = "done"
    /\ simRuns[1].rngKey # simRuns[2].rngKey
    /\ simRuns[1].pieceTypes # simRuns[2].pieceTypes
    /\ simRuns[1].maxScore > 0
    /\ simRuns[1].totalLines >= 2

\* ---------------------------------------------------------------- C30
\* C30: the stored genome database round-trips: after each of
\* registerGenome, updatePerformance, importEliteGenome and mixStrategies
\* returns, loading the database from localStorage gives the same genomes as
\* the in-memory database, with the same offspring lists, nicknames,
\* strategies and best scores.
C30_StoredDatabaseRoundTrips ==
    storedDatabase # NoItem => LoadMap(storedDatabase) = genomeDatabase

============================================================================
